---------------------------- MODULE Spec2Model ----------------------------
(***************************************************************************)
(* A model of the 6502 emulator: the memory objects of emulator/memory.py  *)
(* (MemoryBlock, MMIOBlock, MemoryMap) and the CPU of emulator/cpu.py      *)
(* (CPU6502.step, irq, nmi and every instruction handler).                 *)
(*                                                                         *)
(* Two specifications share the definitions:                               *)
(*   SpecMap  a harness that builds a small MemoryMap with add_block and   *)
(*            reads and writes it;                                         *)
(*   Spec     a CPU6502 constructed over a 64 KiB MemoryMap, a harness     *)
(*            that loads a program and sets PC, then step/irq/nmi calls.   *)
(***************************************************************************)
EXTENDS Integers, Sequences, FiniteSets, TLC

VARIABLES
    memory,   \* the Memory object under test / CPU6502.memory
    a,        \* CPU6502.a
    x,        \* CPU6502.x
    y,        \* CPU6502.y
    pc,       \* CPU6502.pc
    sp,       \* CPU6502.sp
    status,   \* CPU6502.status
    cycles,   \* CPU6502.cycles
    call,     \* the last call made by the harness: <<name, arguments...>>
    opcode,   \* the local `opcode` of the last step() (-1 when none was fetched)
    result,   \* how the last call ended: <<"return", value>> or <<"raise", exception>>
    log,      \* the bus accesses the CPU made during the last call, in order
    steps     \* the local `steps` of run() (0 while run() has not been called)

vars == <<memory, a, x, y, pc, sp, status, cycles, call, opcode, result, log, steps>>

----------------------------------------------------------------------------
(* Bounds of the model.                                                    *)

\* SpecMap: add_block is tried while the map holds fewer regions than this.
MaxRegions == 3
\* SpecMap: highest offset add_block is called with.
MaxOffset == 2
\* SpecMap: largest block add_block is called with.
MaxSize == 3
\* Spec: step(), irq() and nmi() are called while cycles is below this.
MaxCycles == 12

----------------------------------------------------------------------------
(* Integer helpers standing for Python's int operators on small values.    *)

Pow2(n) == IF n = 0 THEN 1 ELSE IF n = 1 THEN 2 ELSE IF n = 2 THEN 4
           ELSE IF n = 3 THEN 8 ELSE IF n = 4 THEN 16 ELSE IF n = 5 THEN 32
           ELSE IF n = 6 THEN 64 ELSE IF n = 7 THEN 128 ELSE 256

\* (v >> i) & 1
Bit(v, i) == (v \div Pow2(i)) % 2

\* v & ~(1 << i)
ClearBit(v, i) == v - Bit(v, i) * Pow2(i)

\* v | (1 << i)
SetBit(v, i) == v + (1 - Bit(v, i)) * Pow2(i)

\* (v & ~(1 << i)) | (b << i), b in {0, 1}
PutBit(v, i, b) == ClearBit(v, i) + b * Pow2(i)

RECURSIVE BitwiseOp(_, _, _, _)
\* Bitwise operator on the low n bits: tab[bit of p][bit of q].
BitwiseOp(tab, p, q, n) ==
    IF n = 0 THEN 0
    ELSE tab[(p % 2) + 1][(q % 2) + 1] + 2 * BitwiseOp(tab, p \div 2, q \div 2, n - 1)

\* p & q, p | q, p ^ q on bytes
BitAnd(p, q) == BitwiseOp(<<<<0, 0>>, <<0, 1>>>>, p, q, 8)
BitOr(p, q)  == BitwiseOp(<<<<0, 1>>, <<1, 1>>>>, p, q, 8)
BitXor(p, q) == BitwiseOp(<<<<0, 1>>, <<1, 0>>>>, p, q, 8)

Max(S) == CHOOSE m \in S : \A n \in S : n <= m

\* The value e bound to the name that `rest` takes: v = e; rest
Let(e, rest(_)) == rest(e)

----------------------------------------------------------------------------
(* emulator/memory.py                                                      *)
(*                                                                         *)
(* A Memory object is a record tagged with its class:                      *)
(*   [kind |-> "MemoryBlock", size, mem]   mem: offset -> byte, the        *)
(*        nonzero bytes of the bytearray (bytearray(size) is all zero)     *)
(*   [kind |-> "MMIOBlock", registers]     registers: offset -> the state  *)
(*        of the handler registered there                                  *)
(*   [kind |-> "MemoryMap", regions]       regions: the list of            *)
(*        MemoryMapRegion records [offset, memory]                         *)
(***************************************************************************)

\* bytearray element read: bytes never written are zero
Get(mem, o) == IF o \in DOMAIN mem THEN mem[o] ELSE 0

\* bytearray element assignment
Put(mem, o, v) ==
    IF v = 0 THEN [k \in DOMAIN mem \ {o} |-> mem[k]]
    ELSE [k \in DOMAIN mem \cup {o} |-> IF k = o THEN v ELSE mem[k]]

\* MemoryBlock(size)
MemoryBlock(size) == [kind |-> "MemoryBlock", size |-> size, mem |-> << >>]

\* MMIOBlock().add_register(o, handler) for every o in offsets, each handler a
\* one-byte latch holding 0
MMIOBlock(offsets) == [kind |-> "MMIOBlock", registers |-> [o \in offsets |-> 0]]

\* MemoryMap()
MemoryMap == [kind |-> "MemoryMap", regions |-> << >>]

\* len(memory) for the classes that define __len__
len(m) ==
    IF m.kind = "MemoryBlock" THEN m.size
    ELSE Max(DOMAIN m.registers) + 1

\* MemoryBlock._check_address_bounds: TRUE when it raises IndexError
check_address_bounds(m, address) == ~(0 <= address /\ address < m.size)

\* MMIOHandler.read of the latch handler
handler_read(h) == h

\* MMIOHandler.write of the latch handler
handler_write(h, value) == value % 256

\* MemoryMapRegion.top
top(r) == r.offset + len(r.memory) - 1

\* MemoryMapRegion.__contains__
contains(r, address) == address >= r.offset /\ address <= top(r)

\* MemoryMapRegion.overlaps
overlaps(self, other) == contains(self, other.offset) \/ contains(self, top(other))

\* MemoryMap.add_block: [memory |-> the map afterwards, raised |-> ValueError?]
add_block(m, offset, block) ==
    LET region == [offset |-> offset, memory |-> block]
    IN  IF \E i \in 1..Len(m.regions) : overlaps(region, m.regions[i])
        THEN [memory |-> m, raised |-> TRUE]
        ELSE [memory |-> [m EXCEPT !.regions = Append(@, region)], raised |-> FALSE]

\* MemoryMap.get_containing_region: the index of the first region containing
\* address, 0 for None
get_containing_region(m, address) ==
    LET hits == {i \in 1..Len(m.regions) : contains(m.regions[i], address)}
    IN  IF hits = {} THEN 0 ELSE CHOOSE i \in hits : \A j \in hits : i <= j

\* MemoryBlock.read: [value, raised]
MemoryBlock_read(m, address) ==
    IF check_address_bounds(m, address)
    THEN [value |-> 0, raised |-> "IndexError"]
    ELSE [value |-> Get(m.mem, address), raised |-> "none"]

\* MemoryBlock.write: [memory, raised]
MemoryBlock_write(m, address, value) ==
    IF check_address_bounds(m, address)
    THEN [memory |-> m, raised |-> "IndexError"]
    ELSE [memory |-> [m EXCEPT !.mem = Put(@, address, value % 256)], raised |-> "none"]

\* bytearray slice assignment mem[lo:hi] = sequence, for 0 <= lo <= hi <= size:
\* the bytes from hi on move to lo + len(sequence), and the bytearray grows
\* or shrinks by the difference of the two lengths.
set_slice(m, lo, hi, sequence) ==
    LET n == Len(sequence)
        moved(k) == IF k < lo THEN k ELSE k - hi + lo + n
        kept == {k \in DOMAIN m.mem : k < lo \/ k >= hi}
        written == {lo + i - 1 : i \in {j \in 1..n : sequence[j] # 0}}
    IN  [m EXCEPT
            !.size = m.size - (hi - lo) + n,
            !.mem = [k \in {moved(j) : j \in kept} \cup written |->
                        IF k >= lo /\ k < lo + n THEN sequence[k - lo + 1]
                        ELSE IF k < lo THEN m.mem[k] ELSE m.mem[k + hi - lo - n]]]

\* MemoryBlock.write_bytes: [memory, raised]
MemoryBlock_write_bytes(m, start_address, sequence) ==
    IF check_address_bounds(m, start_address)
        \/ check_address_bounds(m, start_address + Len(sequence))
    THEN [memory |-> m, raised |-> "IndexError"]
    ELSE [memory |-> set_slice(m, start_address, start_address + Len(sequence),
                               sequence),
          raised |-> "none"]

\* The value of a character bytes.fromhex reads as a digit, in either case,
\* -1 for any other character.
hex_value(ch) ==
    LET hex_digits ==
            <<{"0"}, {"1"}, {"2"}, {"3"}, {"4"}, {"5"}, {"6"}, {"7"}, {"8"}, {"9"},
              {"a", "A"}, {"b", "B"}, {"c", "C"}, {"d", "D"}, {"e", "E"}, {"f", "F"}>>
    IN  IF \E i \in 1..16 : ch \in hex_digits[i]
        THEN (CHOOSE i \in 1..16 : ch \in hex_digits[i]) - 1
        ELSE -1

RECURSIVE fromhex(_)
\* bytes.fromhex(sequence), sequence given as its characters: whitespace
\* between bytes is skipped and every byte is two adjacent digits.
\* [bytes, raised]
fromhex(sequence) ==
    IF sequence = << >> THEN [bytes |-> << >>, raised |-> "none"]
    ELSE IF Head(sequence) = " " THEN fromhex(Tail(sequence))
    ELSE IF Len(sequence) < 2 \/ hex_value(sequence[1]) < 0 \/ hex_value(sequence[2]) < 0
    THEN [bytes |-> << >>, raised |-> "ValueError"]
    ELSE LET rest == fromhex(SubSeq(sequence, 3, Len(sequence)))
         IN  [bytes |-> <<16 * hex_value(sequence[1]) + hex_value(sequence[2])>>
                           \o rest.bytes,
              raised |-> rest.raised]

\* MemoryBlock.write_bytes_hex: the two bounds checks and the length of the
\* slice use len(sequence), the number of characters of the string.
MemoryBlock_write_bytes_hex(m, start_address, sequence) ==
    IF check_address_bounds(m, start_address)
        \/ check_address_bounds(m, start_address + Len(sequence))
    THEN [memory |-> m, raised |-> "IndexError"]
    ELSE IF fromhex(sequence).raised # "none"
    THEN [memory |-> m, raised |-> fromhex(sequence).raised]
    ELSE [memory |-> set_slice(m, start_address, start_address + Len(sequence),
                               fromhex(sequence).bytes),
          raised |-> "none"]

\* MMIOBlock.read
MMIOBlock_read(m, address) ==
    IF address \notin DOMAIN m.registers
    THEN [value |-> 0, raised |-> "none"]
    ELSE [value |-> handler_read(m.registers[address]), raised |-> "none"]

\* MMIOBlock.write
MMIOBlock_write(m, address, value) ==
    IF address \notin DOMAIN m.registers
    THEN [memory |-> m, raised |-> "none"]
    ELSE [memory |-> [m EXCEPT !.registers[address] = handler_write(@, value)],
          raised |-> "none"]

\* region.memory.read(...): the read method of the backing's class
backing_read(m, address) ==
    IF m.kind = "MemoryBlock" THEN MemoryBlock_read(m, address)
    ELSE MMIOBlock_read(m, address)

\* region.memory.write(...): the write method of the backing's class
backing_write(m, address, value) ==
    IF m.kind = "MemoryBlock" THEN MemoryBlock_write(m, address, value)
    ELSE MMIOBlock_write(m, address, value)

\* Fault variant of MemoryMap.read: an address in no region reads as 0xFF
\* (open bus) instead of 0.
MemoryMap_read_open_bus(m, address) ==
    Let(get_containing_region(m, address), LAMBDA i :
        IF i = 0 THEN [value |-> \hFF, raised |-> "none"]
        ELSE backing_read(m.regions[i].memory, address - m.regions[i].offset))

\* MemoryMap.read
MemoryMap_read(m, address) ==
    Let(get_containing_region(m, address), LAMBDA i :
        IF i = 0 THEN [value |-> 0, raised |-> "none"]
        ELSE backing_read(m.regions[i].memory, address - m.regions[i].offset))

\* MemoryMap.write
MemoryMap_write(m, address, value) ==
    Let(get_containing_region(m, address), LAMBDA i :
        IF i = 0 THEN [memory |-> m, raised |-> "none"]
        ELSE Let(backing_write(m.regions[i].memory, address - m.regions[i].offset, value),
                 LAMBDA w : [memory |-> [m EXCEPT !.regions[i].memory = w.memory],
                             raised |-> w.raised]))

\* memory.read(address) of any Memory object
read(m, address) ==
    IF m.kind = "MemoryMap" THEN MemoryMap_read(m, address)
    ELSE backing_read(m, address)

\* memory.write(address, value) of any Memory object
write(m, address, value) ==
    IF m.kind = "MemoryMap" THEN MemoryMap_write(m, address, value)
    ELSE backing_write(m, address, value)

----------------------------------------------------------------------------
(* emulator/cpu.py: constants and tables of CPU6502                        *)

STATUS_C == 0
STATUS_Z == 1
STATUS_I == 2
STATUS_D == 3
STATUS_B == 4
STATUS_V == 6
STATUS_N == 7

\* 0x0100
STACK_ROOT == 256

\* 0xFFFA
NMI_VECTOR == 65530
\* 0xFFFC
RST_VECTOR == 65532
\* 0xFFFE
IRQ_VECTOR == 65534

LOAD_CYCLE_COUNTS ==
    [IMMEDIATE |-> 2, ZERO_PAGE |-> 3, ZERO_PAGE_X |-> 4, ZERO_PAGE_Y |-> 4,
     ABSOLUTE |-> 4, ABSOLUTE_X |-> 4, ABSOLUTE_Y |-> 4, INDIRECT_X |-> 6,
     INDIRECT_Y |-> 5]

LOAD_EXTRA_CYCLE_MODES == {"ABSOLUTE_X", "ABSOLUTE_Y", "INDIRECT_Y"}

STORE_CYCLE_COUNTS ==
    [ZERO_PAGE |-> 3, ZERO_PAGE_X |-> 4, ZERO_PAGE_Y |-> 4, ABSOLUTE |-> 4,
     ABSOLUTE_X |-> 5, ABSOLUTE_Y |-> 5, INDIRECT_X |-> 6, INDIRECT_Y |-> 6]

UNARY_CYCLE_COUNTS ==
    [ZERO_PAGE |-> 5, ZERO_PAGE_X |-> 6, ABSOLUTE |-> 6, ABSOLUTE_X |-> 7]

BINARY_CYCLE_COUNTS ==
    [IMMEDIATE |-> 2, ZERO_PAGE |-> 3, ZERO_PAGE_X |-> 4, ZERO_PAGE_Y |-> 4,
     ABSOLUTE |-> 4, ABSOLUTE_X |-> 4, ABSOLUTE_Y |-> 4, INDIRECT_X |-> 6,
     INDIRECT_Y |-> 5]

BINARY_EXTRA_CYCLE_MODES == {"ABSOLUTE_X", "ABSOLUTE_Y"}

----------------------------------------------------------------------------
(* The CPU as a value: c = [a, x, y, pc, sp, status, cycles, memory, log,  *)
(* exc].  A method of CPU6502 is an operator from the CPU before the call  *)
(* to the CPU after it.  c.exc names the exception that is propagating     *)
(* ("none" when there is none): no statement after the raise takes effect. *)
(* c.log lists the accesses made through self.memory, each tagged with the *)
(* method that made it.  Let(e, LAMBDA v : rest) reads "v = e; rest".      *)

\* CPU6502.__init__
CPU6502(m) ==
    [a |-> 0, x |-> 0, y |-> 0, pc |-> 0, sp |-> \hFF,
     status |-> SetBit(SetBit(SetBit(0, STATUS_Z), STATUS_I), 5),
     cycles |-> 0, memory |-> m, log |-> << >>, exc |-> "none"]

\* A statement reached only when no exception is propagating.
Upd(c, d) == IF c.exc = "none" THEN d ELSE c

\* self.<field> = value
Set(c, field, value) == Upd(c, [c EXCEPT ![field] = value])

\* The status register with bit i made b
put_flag(c, i, b) == Upd(c, [c EXCEPT !.status = PutBit(@, i, b)])

\* self.memory.read(address), called from method `by`:
\* [c |-> the CPU afterwards, value |-> the byte read]
bus_read(c, address, by) ==
    Let(read(c.memory, address), LAMBDA r :
        [c |-> Upd(c, [c EXCEPT !.exc = r.raised,
                                !.log = Append(@, [op |-> "read", address |-> address,
                                                   value |-> r.value, by |-> by])]),
         value |-> r.value])

\* The CPU after self.memory.write(address, value), called from method `by`.
bus_write(c, address, value, by) ==
    Let(write(c.memory, address, value), LAMBDA w :
        Upd(c, [c EXCEPT !.exc = w.raised, !.memory = w.memory,
                         !.log = Append(@, [op |-> "write", address |-> address,
                                            value |-> value, by |-> by])]))

\* CPU6502.update_zero_flag
update_zero_flag(c, res) == put_flag(c, STATUS_Z, IF res = 0 THEN 1 ELSE 0)

\* Fault variant of update_overflow_flag: the signs of the inputs are not
\* compared, V is set whenever the sign of the result differs from A's.
update_overflow_flag_on_sign_change(c, a_initial, operand, res) ==
    put_flag(c, STATUS_V, Bit(BitXor(a_initial, res), 7))

\* CPU6502.update_overflow_flag
update_overflow_flag(c, a_initial, operand, res) ==
    LET inputs_same_sign == 1 - Bit(BitXor(a_initial, operand), 7)
        result_sign_different_from_inputs == Bit(BitXor(a_initial, res), 7)
    IN  put_flag(c, STATUS_V, inputs_same_sign * result_sign_different_from_inputs)

\* CPU6502.update_negative_flag
update_negative_flag(c, res) == put_flag(c, STATUS_N, Bit(res, 7))

\* self.cycles += n
add_cycles(c, n) == Upd(c, [c EXCEPT !.cycles = @ + n])

\* CPU6502.resolve_address: [c |-> the CPU afterwards, addr, page_boundary_crossed]
\* resolve_address reading the high byte of a zero-page pointer at
\* addr_zp + 1 without the & 0xff.
resolve_address_past_zero_page(c, mode) ==
    IF mode = "IMMEDIATE"
    THEN [c |-> Set(c, "pc", c.pc + 1), addr |-> c.pc, page_boundary_crossed |-> FALSE]
    ELSE
    Let(bus_read(c, c.pc, "resolve_address"), LAMBDA b0 :
        CASE mode = "ZERO_PAGE" ->
              [c |-> Set(b0.c, "pc", c.pc + 1), addr |-> b0.value,
               page_boundary_crossed |-> FALSE]
          [] mode = "ZERO_PAGE_X" ->
              [c |-> Set(b0.c, "pc", c.pc + 1), addr |-> (b0.value + c.x) % 256,
               page_boundary_crossed |-> FALSE]
          [] mode = "ZERO_PAGE_Y" ->
              [c |-> Set(b0.c, "pc", c.pc + 1), addr |-> (b0.value + c.y) % 256,
               page_boundary_crossed |-> FALSE]
          [] mode \in {"ABSOLUTE", "ABSOLUTE_X", "ABSOLUTE_Y"} ->
              Let(bus_read(b0.c, c.pc + 1, "resolve_address"), LAMBDA b1 :
                  LET addr_base == b1.value * 256 + b0.value
                      addr == CASE mode = "ABSOLUTE" -> addr_base
                                [] mode = "ABSOLUTE_X" -> (addr_base + c.x) % 65536
                                [] mode = "ABSOLUTE_Y" -> (addr_base + c.y) % 65536
                  IN  [c |-> Set(b1.c, "pc", c.pc + 2), addr |-> addr,
                       page_boundary_crossed |->
                           mode # "ABSOLUTE" /\ (addr_base \div 256) # (addr \div 256)])
          [] mode \in {"INDIRECT_X", "INDIRECT_Y"} ->
              LET addr_zp == IF mode = "INDIRECT_X" THEN (b0.value + c.x) % 256
                             ELSE b0.value
              IN  Let(bus_read(b0.c, addr_zp, "resolve_address"), LAMBDA lo :
                  Let(bus_read(lo.c, addr_zp + 1, "resolve_address"), LAMBDA hi :
                      LET base == hi.value * 256 + lo.value
                          addr == IF mode = "INDIRECT_X" THEN base
                                  ELSE (base + c.y) % 65536
                      IN  [c |-> Set(hi.c, "pc", c.pc + 1), addr |-> addr,
                           page_boundary_crossed |->
                               mode = "INDIRECT_Y" /\ (base \div 256) # (addr \div 256)])))

\* Every mode but IMMEDIATE starts with self.memory.read(self.pc); the
\* absolute modes then read self.pc + 1, the indirect ones the two bytes of
\* the zero-page pointer.
resolve_address(c, mode) ==
    IF mode = "IMMEDIATE"
    THEN [c |-> Set(c, "pc", c.pc + 1), addr |-> c.pc, page_boundary_crossed |-> FALSE]
    ELSE
    Let(bus_read(c, c.pc, "resolve_address"), LAMBDA b0 :
        CASE mode = "ZERO_PAGE" ->
              [c |-> Set(b0.c, "pc", c.pc + 1), addr |-> b0.value,
               page_boundary_crossed |-> FALSE]
          [] mode = "ZERO_PAGE_X" ->
              [c |-> Set(b0.c, "pc", c.pc + 1), addr |-> (b0.value + c.x) % 256,
               page_boundary_crossed |-> FALSE]
          [] mode = "ZERO_PAGE_Y" ->
              [c |-> Set(b0.c, "pc", c.pc + 1), addr |-> (b0.value + c.y) % 256,
               page_boundary_crossed |-> FALSE]
          [] mode \in {"ABSOLUTE", "ABSOLUTE_X", "ABSOLUTE_Y"} ->
              Let(bus_read(b0.c, c.pc + 1, "resolve_address"), LAMBDA b1 :
                  LET addr_base == b1.value * 256 + b0.value
                      addr == CASE mode = "ABSOLUTE" -> addr_base
                                [] mode = "ABSOLUTE_X" -> (addr_base + c.x) % 65536
                                [] mode = "ABSOLUTE_Y" -> (addr_base + c.y) % 65536
                  IN  [c |-> Set(b1.c, "pc", c.pc + 2), addr |-> addr,
                       page_boundary_crossed |->
                           mode # "ABSOLUTE" /\ (addr_base \div 256) # (addr \div 256)])
          [] mode \in {"INDIRECT_X", "INDIRECT_Y"} ->
              LET addr_zp == IF mode = "INDIRECT_X" THEN (b0.value + c.x) % 256
                             ELSE b0.value
              IN  Let(bus_read(b0.c, addr_zp, "resolve_address"), LAMBDA lo :
                  Let(bus_read(lo.c, (addr_zp + 1) % 256, "resolve_address"), LAMBDA hi :
                      LET base == hi.value * 256 + lo.value
                          addr == IF mode = "INDIRECT_X" THEN base
                                  ELSE (base + c.y) % 65536
                      IN  [c |-> Set(hi.c, "pc", c.pc + 1), addr |-> addr,
                           page_boundary_crossed |->
                               mode = "INDIRECT_Y" /\ (base \div 256) # (addr \div 256)])))

\* Fault variant of push_byte_to_stack: the stack pointer is decremented
\* without the mask `& 0xff`.
push_byte_to_stack_unmasked(c, byte) ==
    Let(bus_write(c, STACK_ROOT + c.sp, byte, "push_byte_to_stack"), LAMBDA c1 :
        Set(c1, "sp", c1.sp - 1))

\* CPU6502.push_byte_to_stack
push_byte_to_stack(c, byte) ==
    Let(bus_write(c, STACK_ROOT + c.sp, byte, "push_byte_to_stack"), LAMBDA c1 :
        Set(c1, "sp", (c1.sp - 1) % 256))

\* pull_byte_from_stack reading the slot at SP before incrementing SP.
pull_byte_from_stack_before_increment(c) ==
    Let(bus_read(c, STACK_ROOT + c.sp, "pull_byte_from_stack"), LAMBDA r :
        [c |-> Set(r.c, "sp", (c.sp + 1) % 256), value |-> r.value])

\* CPU6502.pull_byte_from_stack: [c |-> the CPU afterwards, value |-> the byte]
pull_byte_from_stack(c) ==
    Let(Set(c, "sp", (c.sp + 1) % 256), LAMBDA c1 :
        bus_read(c1, STACK_ROOT + c1.sp, "pull_byte_from_stack"))

\* _interrupt without `self.status |= (1 << self.STATUS_I)`.
interrupt_without_disable(c, interrupt_type) ==
    IF interrupt_type = "maskable" /\ Bit(c.status, STATUS_I) = 1
    THEN c
    ELSE
    Let(add_cycles(IF interrupt_type = "break" THEN put_flag(c, STATUS_B, 1) ELSE c, 7),
        LAMBDA c1 :
    Let(push_byte_to_stack(push_byte_to_stack(c1, (c1.pc \div 256) % 256), c1.pc % 256),
        LAMBDA c2 :
    Let(bus_read(push_byte_to_stack(c2, c2.status),
                 IF interrupt_type = "non-maskable" THEN NMI_VECTOR ELSE IRQ_VECTOR,
                 "_interrupt"),
        LAMBDA isr_lo :
    Let(bus_read(isr_lo.c,
                 (IF interrupt_type = "non-maskable" THEN NMI_VECTOR ELSE IRQ_VECTOR) + 1,
                 "_interrupt"),
        LAMBDA isr_hi :
        Set(isr_hi.c, "pc", isr_hi.value * 256 + isr_lo.value)))))

\* CPU6502._interrupt
interrupt(c, interrupt_type) ==
    IF interrupt_type = "maskable" /\ Bit(c.status, STATUS_I) = 1
    THEN c
    ELSE
    Let(add_cycles(IF interrupt_type = "break" THEN put_flag(c, STATUS_B, 1) ELSE c, 7),
        LAMBDA c1 :
    Let(push_byte_to_stack(push_byte_to_stack(c1, (c1.pc \div 256) % 256), c1.pc % 256),
        LAMBDA c2 :
    Let(bus_read(put_flag(push_byte_to_stack(c2, c2.status), STATUS_I, 1),
                 IF interrupt_type = "non-maskable" THEN NMI_VECTOR ELSE IRQ_VECTOR,
                 "_interrupt"),
        LAMBDA isr_lo :
    Let(bus_read(isr_lo.c,
                 (IF interrupt_type = "non-maskable" THEN NMI_VECTOR ELSE IRQ_VECTOR) + 1,
                 "_interrupt"),
        LAMBDA isr_hi :
        Set(isr_hi.c, "pc", isr_hi.value * 256 + isr_lo.value)))))

\* Fault variant of irq: the request is taken whatever the I flag holds.
irq_unmaskable(c) == interrupt(c, "break")

\* CPU6502.irq
irq(c) == interrupt(c, "maskable")

\* Fault variant of nmi: the interrupt is delivered as a maskable request.
nmi_maskable(c) == interrupt(c, "maskable")

\* CPU6502.nmi
nmi(c) == interrupt(c, "non-maskable")

----------------------------------------------------------------------------
(* emulator/cpu.py: the instruction handlers                               *)

\* CPU6502.branch
branch(c, flag_index, flag_value) ==
    IF Bit(c.status, flag_index) = flag_value
    THEN Let(bus_read(c, c.pc, "branch"), LAMBDA m :
             LET offset == IF m.value >= 128 THEN m.value - 256 ELSE m.value
                 old_pc == c.pc + 1
                 new_pc == (old_pc + offset) % 65536
             IN  add_cycles(Set(m.c, "pc", new_pc),
                            3 + IF (old_pc \div 256) % 256 # new_pc \div 256
                                THEN 1 ELSE 0))
    ELSE add_cycles(Set(c, "pc", c.pc + 1), 2)

\* Fault variant of brk: the signature byte after the opcode is not skipped.
brk_without_signature_byte(c) == interrupt(c, "break")

\* CPU6502.brk
brk(c) == interrupt(Set(c, "pc", c.pc + 1), "break")

\* Fault variant of jmp: the high byte of an indirect target is read at
\* addr + 1, across the page boundary.
jmp_across_page_boundary(c, mode) ==
    Let(bus_read(c, c.pc, "jmp"), LAMBDA lo :
    Let(bus_read(lo.c, (c.pc + 1) % 65536, "jmp"), LAMBDA hi :
        LET addr == hi.value * 256 + lo.value
            addr_incremented == (addr + 1) % 65536
        IN  IF mode = "absolute"
            THEN add_cycles(Set(hi.c, "pc", addr), 3)
            ELSE Let(bus_read(hi.c, addr, "jmp"), LAMBDA ind_lo :
                 Let(bus_read(ind_lo.c, addr_incremented, "jmp"), LAMBDA ind_hi :
                     add_cycles(Set(ind_hi.c, "pc", ind_hi.value * 256 + ind_lo.value),
                                5)))))

\* CPU6502.jmp
jmp(c, mode) ==
    Let(bus_read(c, c.pc, "jmp"), LAMBDA lo :
    Let(bus_read(lo.c, (c.pc + 1) % 65536, "jmp"), LAMBDA hi :
        LET addr == hi.value * 256 + lo.value
            addr_incremented == (addr \div 256) * 256 + ((addr + 1) % 256)
        IN  IF mode = "absolute"
            THEN add_cycles(Set(hi.c, "pc", addr), 3)
            ELSE Let(bus_read(hi.c, addr, "jmp"), LAMBDA ind_lo :
                 Let(bus_read(ind_lo.c, addr_incremented, "jmp"), LAMBDA ind_hi :
                     add_cycles(Set(ind_hi.c, "pc", ind_hi.value * 256 + ind_lo.value),
                                5)))))

\* CPU6502.jsr
jsr(c) ==
    Let(bus_read(c, c.pc, "jsr"), LAMBDA lo :
    Let(bus_read(lo.c, (c.pc + 1) % 65536, "jsr"), LAMBDA hi :
        LET return_addr == (c.pc + 1) % 65536
        IN  add_cycles(
                Set(push_byte_to_stack(
                        push_byte_to_stack(hi.c, (return_addr \div 256) % 256),
                        return_addr % 256),
                    "pc", hi.value * 256 + lo.value),
                6)))

\* CPU6502.nop
nop(c) == add_cycles(c, 2)

\* CPU6502.rts
rts(c) ==
    Let(pull_byte_from_stack(c), LAMBDA lo :
    Let(pull_byte_from_stack(lo.c), LAMBDA hi :
        add_cycles(Set(hi.c, "pc", hi.value * 256 + lo.value + 1), 6)))

\* CPU6502.clc
clc(c) == add_cycles(put_flag(c, STATUS_C, 0), 2)

\* CPU6502.sec
sec(c) == add_cycles(put_flag(c, STATUS_C, 1), 2)

\* CPU6502.cli
cli(c) == add_cycles(put_flag(c, STATUS_I, 0), 2)

\* CPU6502.sei
sei(c) == add_cycles(put_flag(c, STATUS_I, 1), 2)

\* CPU6502.cld
cld(c) == add_cycles(put_flag(c, STATUS_D, 0), 2)

\* CPU6502.sed
sed(c) == add_cycles(put_flag(c, STATUS_D, 1), 2)

\* CPU6502.clv
clv(c) == add_cycles(put_flag(c, STATUS_V, 0), 2)


\* load_cycles charging the page crossing only in the absolute indexed modes,
\* as BINARY_EXTRA_CYCLE_MODES alone would.
load_cycles_absolute_only(mode, page_boundary_crossed) ==
    LOAD_CYCLE_COUNTS[mode]
    + IF page_boundary_crossed /\ mode \in BINARY_EXTRA_CYCLE_MODES THEN 1 ELSE 0

\* The cycles a load adds: LOAD_CYCLE_COUNTS[mode], plus 1 on a page crossing
\* in one of LOAD_EXTRA_CYCLE_MODES.
load_cycles(mode, page_boundary_crossed) ==
    LOAD_CYCLE_COUNTS[mode]
    + IF page_boundary_crossed /\ mode \in LOAD_EXTRA_CYCLE_MODES THEN 1 ELSE 0

\* CPU6502.lda
lda(c, mode) ==
    Let(resolve_address(c, mode), LAMBDA r :
    Let(bus_read(r.c, r.addr, "lda"), LAMBDA m :
        update_negative_flag(
            update_zero_flag(
                add_cycles(Set(m.c, "a", m.value),
                           load_cycles(mode, r.page_boundary_crossed)),
                m.value),
            m.value)))

\* CPU6502.ldx
ldx(c, mode) ==
    Let(resolve_address(c, mode), LAMBDA r :
    Let(bus_read(r.c, r.addr, "ldx"), LAMBDA m :
        update_negative_flag(
            update_zero_flag(
                add_cycles(Set(m.c, "x", m.value),
                           load_cycles(mode, r.page_boundary_crossed)),
                m.value),
            m.value)))

\* CPU6502.ldy
ldy(c, mode) ==
    Let(resolve_address(c, mode), LAMBDA r :
    Let(bus_read(r.c, r.addr, "ldy"), LAMBDA m :
        update_negative_flag(
            update_zero_flag(
                add_cycles(Set(m.c, "y", m.value),
                           load_cycles(mode, r.page_boundary_crossed)),
                m.value),
            m.value)))

\* sta writing one address above the resolved one.
sta_at_next_address(c, mode) ==
    Let(resolve_address(c, mode), LAMBDA r :
        add_cycles(bus_write(r.c, (r.addr + 1) % 65536, c.a, "sta"), STORE_CYCLE_COUNTS[mode]))

\* CPU6502.sta
sta(c, mode) ==
    Let(resolve_address(c, mode), LAMBDA r :
        add_cycles(bus_write(r.c, r.addr, c.a, "sta"), STORE_CYCLE_COUNTS[mode]))

\* CPU6502.stx
stx(c, mode) ==
    Let(resolve_address(c, mode), LAMBDA r :
        add_cycles(bus_write(r.c, r.addr, c.x, "stx"), STORE_CYCLE_COUNTS[mode]))

\* CPU6502.sty
sty(c, mode) ==
    Let(resolve_address(c, mode), LAMBDA r :
        add_cycles(bus_write(r.c, r.addr, c.y, "sty"), STORE_CYCLE_COUNTS[mode]))

\* CPU6502.tax
tax(c) ==
    update_negative_flag(
        update_zero_flag(add_cycles(Set(c, "x", c.a), 2), c.a), c.a)

\* CPU6502.tay
tay(c) ==
    update_negative_flag(
        update_zero_flag(add_cycles(Set(c, "y", c.a), 2), c.a), c.a)

\* CPU6502.tsx
tsx(c) ==
    update_negative_flag(
        update_zero_flag(add_cycles(Set(c, "x", c.sp), 2), c.sp), c.sp)

\* CPU6502.txa
txa(c) ==
    update_negative_flag(
        update_zero_flag(add_cycles(Set(c, "a", c.x), 2), c.x), c.x)

\* CPU6502.txs
txs(c) == add_cycles(Set(c, "sp", c.x), 2)

\* CPU6502.tya
tya(c) ==
    update_negative_flag(
        update_zero_flag(add_cycles(Set(c, "a", c.y), 2), c.y), c.y)

\* CPU6502.pha
pha(c) == add_cycles(push_byte_to_stack(c, c.a), 3)

\* CPU6502.php
php(c) == add_cycles(push_byte_to_stack(c, SetBit(c.status, STATUS_B)), 3)

\* CPU6502.pla
pla(c) ==
    Let(pull_byte_from_stack(c), LAMBDA p :
        add_cycles(
            update_zero_flag(update_negative_flag(Set(p.c, "a", p.value), p.value),
                             p.value),
            4))

\* plp storing the pulled byte as it is, the B bit included.
plp_keeping_break_flag(c) ==
    Let(pull_byte_from_stack(c), LAMBDA p :
        add_cycles(Set(p.c, "status", p.value), 4))

\* CPU6502.plp
plp(c) ==
    Let(pull_byte_from_stack(c), LAMBDA p :
        add_cycles(Set(p.c, "status", ClearBit(p.value, STATUS_B)), 4))

\* CPU6502.dec
dec(c, mode) ==
    Let(resolve_address(c, mode), LAMBDA r :
    Let(bus_read(r.c, r.addr, "dec"), LAMBDA m :
        LET byte == (m.value - 1) % 256
        IN  update_negative_flag(
                update_zero_flag(
                    add_cycles(bus_write(m.c, r.addr, byte, "dec"),
                               UNARY_CYCLE_COUNTS[mode]),
                    byte),
                byte)))

\* CPU6502.dex
dex(c) ==
    LET value == (c.x - 1) % 256
    IN  update_negative_flag(
            update_zero_flag(add_cycles(Set(c, "x", value), 2), value), value)

\* CPU6502.dey
dey(c) ==
    LET value == (c.y - 1) % 256
    IN  update_negative_flag(
            update_zero_flag(add_cycles(Set(c, "y", value), 2), value), value)

\* CPU6502.inc
inc(c, mode) ==
    Let(resolve_address(c, mode), LAMBDA r :
    Let(bus_read(r.c, r.addr, "inc"), LAMBDA m :
        LET byte == (m.value + 1) % 256
        IN  update_negative_flag(
                update_zero_flag(
                    add_cycles(bus_write(m.c, r.addr, byte, "inc"),
                               UNARY_CYCLE_COUNTS[mode]),
                    byte),
                byte)))

\* CPU6502.inx
inx(c) ==
    LET value == (c.x + 1) % 256
    IN  update_negative_flag(
            update_zero_flag(add_cycles(Set(c, "x", value), 2), value), value)

\* CPU6502.iny
iny(c) ==
    LET value == (c.y + 1) % 256
    IN  update_negative_flag(
            update_zero_flag(add_cycles(Set(c, "y", value), 2), value), value)

\* CPU6502.asl: mode = "None" is the accumulator form
asl(c, mode) ==
    IF mode # "None"
    THEN Let(resolve_address(c, mode), LAMBDA r :
         Let(bus_read(r.c, r.addr, "asl"), LAMBDA m :
             LET carry == Bit(m.value, 7)
                 value == (m.value * 2) % 256
             IN  update_negative_flag(
                     update_zero_flag(
                         add_cycles(put_flag(bus_write(m.c, r.addr, value, "asl"), STATUS_C, carry), UNARY_CYCLE_COUNTS[mode]),
                         value),
                     value)))
    ELSE
         LET carry == Bit(c.a, 7)
             value == (c.a * 2) % 256
         IN  update_negative_flag(
                 update_zero_flag(
                     add_cycles(put_flag(Set(c, "a", value), STATUS_C, carry), 2),
                     value),
                 value)

\* CPU6502.lsr: mode = "None" is the accumulator form
lsr(c, mode) ==
    IF mode # "None"
    THEN Let(resolve_address(c, mode), LAMBDA r :
         Let(bus_read(r.c, r.addr, "lsr"), LAMBDA m :
             LET carry == m.value % 2
                 value == m.value \div 2
             IN  update_negative_flag(
                     update_zero_flag(
                         add_cycles(put_flag(bus_write(m.c, r.addr, value, "lsr"), STATUS_C, carry), UNARY_CYCLE_COUNTS[mode]),
                         value),
                     value)))
    ELSE
         LET carry == c.a % 2
             value == c.a \div 2
         IN  update_negative_flag(
                 update_zero_flag(
                     add_cycles(put_flag(Set(c, "a", value), STATUS_C, carry), 2),
                     value),
                 value)

\* rol without the & 0xff on the shifted value.
rol_without_mask(c, mode) ==
    IF mode # "None"
    THEN Let(resolve_address(c, mode), LAMBDA r :
         Let(bus_read(r.c, r.addr, "rol"), LAMBDA m :
             LET buffer == Bit(c.status, STATUS_C)
                 carry == Bit(m.value, 7)
                 value == m.value * 2 + buffer
             IN  update_negative_flag(
                     update_zero_flag(
                         add_cycles(put_flag(bus_write(m.c, r.addr, value, "rol"), STATUS_C, carry), UNARY_CYCLE_COUNTS[mode]),
                         value),
                     value)))
    ELSE
         LET buffer == Bit(c.status, STATUS_C)
             carry == Bit(c.a, 7)
             value == c.a * 2 + buffer
         IN  update_negative_flag(
                 update_zero_flag(
                     add_cycles(put_flag(Set(c, "a", value), STATUS_C, carry), 2),
                     value),
                 value)

\* CPU6502.rol: mode = "None" is the accumulator form
rol(c, mode) ==
    IF mode # "None"
    THEN Let(resolve_address(c, mode), LAMBDA r :
         Let(bus_read(r.c, r.addr, "rol"), LAMBDA m :
             LET buffer == Bit(c.status, STATUS_C)
                 carry == Bit(m.value, 7)
                 value == (m.value * 2 + buffer) % 256
             IN  update_negative_flag(
                     update_zero_flag(
                         add_cycles(put_flag(bus_write(m.c, r.addr, value, "rol"), STATUS_C, carry), UNARY_CYCLE_COUNTS[mode]),
                         value),
                     value)))
    ELSE
         LET buffer == Bit(c.status, STATUS_C)
             carry == Bit(c.a, 7)
             value == (c.a * 2 + buffer) % 256
         IN  update_negative_flag(
                 update_zero_flag(
                     add_cycles(put_flag(Set(c, "a", value), STATUS_C, carry), 2),
                     value),
                 value)

\* CPU6502.ror: mode = "None" is the accumulator form
ror(c, mode) ==
    IF mode # "None"
    THEN Let(resolve_address(c, mode), LAMBDA r :
         Let(bus_read(r.c, r.addr, "ror"), LAMBDA m :
             LET buffer == Bit(c.status, STATUS_C)
                 carry == m.value % 2
                 value == (buffer * 256 + m.value) \div 2
             IN  update_negative_flag(
                     update_zero_flag(
                         add_cycles(put_flag(bus_write(m.c, r.addr, value, "ror"), STATUS_C, carry), UNARY_CYCLE_COUNTS[mode]),
                         value),
                     value)))
    ELSE
         LET buffer == Bit(c.status, STATUS_C)
             carry == c.a % 2
             value == (buffer * 256 + c.a) \div 2
         IN  update_negative_flag(
                 update_zero_flag(
                     add_cycles(put_flag(Set(c, "a", value), STATUS_C, carry), 2),
                     value),
                 value)

\* emulator/utils.py dec_to_bcd: TRUE when it raises ValueError
dec_to_bcd_raises(d) == d < 0 \/ d > 99

\* Fault variant of dec_to_bcd: the tens are shifted by 3 bits, not 4.
dec_to_bcd_short_shift(d) == (d \div 10) * 8 + (d % 10)

\* emulator/utils.py dec_to_bcd: the value it returns
dec_to_bcd(d) == (d \div 10) * 16 + (d % 10)

\* The cycles a binary operation adds: BINARY_CYCLE_COUNTS[mode], plus 1 on a
\* page crossing in one of the modes `extra`.
binary_cycles(mode, page_boundary_crossed, extra) ==
    BINARY_CYCLE_COUNTS[mode] + IF page_boundary_crossed /\ mode \in extra THEN 1 ELSE 0

\* CPU6502.adc
adc(c, mode) ==
    Let(resolve_address(c, mode), LAMBDA r :
    Let(bus_read(r.c, r.addr, "adc"), LAMBDA m :
        LET operand == m.value
            a_initial == c.a
            carry_in == Bit(c.status, STATUS_C)
            binary_intermediate_sum == c.a + operand + carry_in
            binary_result == binary_intermediate_sum % 256
            decimal == Bit(c.status, STATUS_D) # 0
            a_dec == (a_initial % 16) + (a_initial \div 16) * 10
            operand_dec == (operand % 16) + (operand \div 16) * 10
            dec_sum == a_dec + operand_dec + carry_in
            dec_carry == IF dec_sum >= 100 THEN 1 ELSE 0
            intermediate_sum == IF dec_carry = 1 THEN dec_sum - 100 ELSE dec_sum
            carry_out == IF decimal THEN dec_carry ELSE binary_intermediate_sum \div 256
        IN  add_cycles(
                update_overflow_flag(
                    update_negative_flag(
                        update_zero_flag(
                            put_flag(
                                IF ~decimal THEN Set(m.c, "a", binary_result)
                                ELSE IF dec_to_bcd_raises(intermediate_sum)
                                     THEN Set(m.c, "exc", "ValueError")
                                     ELSE Set(m.c, "a", dec_to_bcd(intermediate_sum)),
                                STATUS_C, carry_out),
                            binary_result),
                        binary_result),
                    a_initial, operand, binary_result),
                binary_cycles(mode, r.page_boundary_crossed,
                              BINARY_EXTRA_CYCLE_MODES \cup {"INDIRECT_Y"}))))

\* CPU6502.and_op
and_op(c, mode) ==
    Let(resolve_address(c, mode), LAMBDA r :
    Let(bus_read(r.c, r.addr, "and_op"), LAMBDA m :
        LET value == BitAnd(c.a, m.value)
        IN  add_cycles(
                update_negative_flag(
                    update_zero_flag(Set(m.c, "a", value), value), value),
                binary_cycles(mode, r.page_boundary_crossed, BINARY_EXTRA_CYCLE_MODES \cup {"INDIRECT_Y"}))))

\* eor paying the page-crossing cycle in (Indirect),Y as adc does.
eor_with_indirect_y_penalty(c, mode) ==
    Let(resolve_address(c, mode), LAMBDA r :
    Let(bus_read(r.c, r.addr, "eor"), LAMBDA m :
        LET value == BitXor(c.a, m.value)
        IN  add_cycles(
                update_negative_flag(
                    update_zero_flag(Set(m.c, "a", value), value), value),
                binary_cycles(mode, r.page_boundary_crossed, BINARY_EXTRA_CYCLE_MODES \cup {"INDIRECT_Y"}))))

\* CPU6502.eor
eor(c, mode) ==
    Let(resolve_address(c, mode), LAMBDA r :
    Let(bus_read(r.c, r.addr, "eor"), LAMBDA m :
        LET value == BitXor(c.a, m.value)
        IN  add_cycles(
                update_negative_flag(
                    update_zero_flag(Set(m.c, "a", value), value), value),
                binary_cycles(mode, r.page_boundary_crossed, BINARY_EXTRA_CYCLE_MODES))))

\* CPU6502.ora
ora(c, mode) ==
    Let(resolve_address(c, mode), LAMBDA r :
    Let(bus_read(r.c, r.addr, "ora"), LAMBDA m :
        LET value == BitOr(c.a, m.value)
        IN  add_cycles(
                update_negative_flag(
                    update_zero_flag(Set(m.c, "a", value), value), value),
                binary_cycles(mode, r.page_boundary_crossed, BINARY_EXTRA_CYCLE_MODES))))

\* sbc with the overflow flag computed from the operand itself, not from its
\* complement.
sbc_overflow_from_operand(c, mode) ==
    Let(resolve_address(c, mode), LAMBDA r :
    Let(bus_read(r.c, r.addr, "sbc"), LAMBDA m :
        LET operand == m.value
            a_initial == c.a
            carry_in == Bit(c.status, STATUS_C)
            binary_intermediate_difference == c.a + (255 - operand) + carry_in
            binary_result == binary_intermediate_difference % 256
            decimal == Bit(c.status, STATUS_D) # 0
            a_dec == (a_initial % 16) + (a_initial \div 16) * 10
            operand_dec == (operand % 16) + (operand \div 16) * 10
            dec_diff == a_dec - operand_dec + carry_in - 1
            dec_carry == IF dec_diff >= 0 THEN 1 ELSE 0
            intermediate_sum == IF dec_carry = 1 THEN dec_diff ELSE dec_diff + 100
            carry_out == IF decimal THEN dec_carry ELSE binary_intermediate_difference \div 256
        IN  add_cycles(
                update_overflow_flag(
                    update_negative_flag(
                        update_zero_flag(
                            put_flag(
                                IF ~decimal THEN Set(m.c, "a", binary_result)
                                ELSE IF dec_to_bcd_raises(intermediate_sum)
                                     THEN Set(m.c, "exc", "ValueError")
                                     ELSE Set(m.c, "a", dec_to_bcd(intermediate_sum)),
                                STATUS_C, carry_out),
                            binary_result),
                        binary_result),
                    a_initial, operand, binary_result),
                binary_cycles(mode, r.page_boundary_crossed,
                              BINARY_EXTRA_CYCLE_MODES \cup {"INDIRECT_Y"}))))

\* CPU6502.sbc
sbc(c, mode) ==
    Let(resolve_address(c, mode), LAMBDA r :
    Let(bus_read(r.c, r.addr, "sbc"), LAMBDA m :
        LET operand == m.value
            a_initial == c.a
            carry_in == Bit(c.status, STATUS_C)
            binary_intermediate_difference == c.a + (255 - operand) + carry_in
            binary_result == binary_intermediate_difference % 256
            decimal == Bit(c.status, STATUS_D) # 0
            a_dec == (a_initial % 16) + (a_initial \div 16) * 10
            operand_dec == (operand % 16) + (operand \div 16) * 10
            dec_diff == a_dec - operand_dec + carry_in - 1
            dec_carry == IF dec_diff >= 0 THEN 1 ELSE 0
            intermediate_sum == IF dec_carry = 1 THEN dec_diff ELSE dec_diff + 100
            carry_out == IF decimal THEN dec_carry ELSE binary_intermediate_difference \div 256
        IN  add_cycles(
                update_overflow_flag(
                    update_negative_flag(
                        update_zero_flag(
                            put_flag(
                                IF ~decimal THEN Set(m.c, "a", binary_result)
                                ELSE IF dec_to_bcd_raises(intermediate_sum)
                                     THEN Set(m.c, "exc", "ValueError")
                                     ELSE Set(m.c, "a", dec_to_bcd(intermediate_sum)),
                                STATUS_C, carry_out),
                            binary_result),
                        binary_result),
                    a_initial, 255 - operand, binary_result),
                binary_cycles(mode, r.page_boundary_crossed,
                              BINARY_EXTRA_CYCLE_MODES \cup {"INDIRECT_Y"}))))

\* CPU6502.bit
bit(c, mode) ==
    Let(resolve_address(c, mode), LAMBDA r :
    Let(bus_read(r.c, r.addr, "bit"), LAMBDA m :
        LET operand == m.value
            operand_mask_zero == IF BitAnd(operand, c.a) = 0 THEN 1 ELSE 0
        IN  add_cycles(
                put_flag(put_flag(put_flag(m.c, STATUS_N, Bit(operand, 7)),
                                  STATUS_V, Bit(operand, 6)),
                         STATUS_Z, operand_mask_zero),
                BINARY_CYCLE_COUNTS[mode])))

\* compare_logic taking the incoming carry as the borrow, as sbc does.
compare_logic_with_borrow(c, register_value, mode) ==
    Let(resolve_address(c, mode), LAMBDA r :
    Let(bus_read(r.c, r.addr, "compare_logic"), LAMBDA m :
        LET operand == m.value
            binary_intermediate_difference ==
                register_value + (255 - operand) + Bit(c.status, STATUS_C)
            carry_out == (binary_intermediate_difference \div 256) % 2
            binary_result == binary_intermediate_difference % 256
        IN  add_cycles(
                update_negative_flag(
                    update_zero_flag(put_flag(m.c, STATUS_C, carry_out), binary_result),
                    binary_result),
                binary_cycles(mode, r.page_boundary_crossed,
                              BINARY_EXTRA_CYCLE_MODES \cup {"INDIRECT_Y"}))))

\* CPU6502.compare_logic
compare_logic(c, register_value, mode) ==
    Let(resolve_address(c, mode), LAMBDA r :
    Let(bus_read(r.c, r.addr, "compare_logic"), LAMBDA m :
        LET operand == m.value
            binary_intermediate_difference == register_value + (255 - operand) + 1
            carry_out == (binary_intermediate_difference \div 256) % 2
            binary_result == binary_intermediate_difference % 256
        IN  add_cycles(
                update_negative_flag(
                    update_zero_flag(put_flag(m.c, STATUS_C, carry_out), binary_result),
                    binary_result),
                binary_cycles(mode, r.page_boundary_crossed,
                              BINARY_EXTRA_CYCLE_MODES \cup {"INDIRECT_Y"}))))

\* CPU6502.compare
compare(c, register, mode) ==
    compare_logic(c, IF register = "a" THEN c.a ELSE IF register = "x" THEN c.x ELSE c.y,
                  mode)

----------------------------------------------------------------------------
(* emulator/cpu.py: the opcode table and step()                            *)

\* The @opcode decorators: <<opcode, method, keyword arguments...>>
OpcodeBindings ==
    { <<\h10, "branch", STATUS_N, 0>>, <<\h30, "branch", STATUS_N, 1>>,
      <<\h50, "branch", STATUS_V, 0>>, <<\h70, "branch", STATUS_V, 1>>,
      <<\h90, "branch", STATUS_C, 0>>, <<\hB0, "branch", STATUS_C, 1>>,
      <<\hD0, "branch", STATUS_Z, 0>>, <<\hF0, "branch", STATUS_Z, 1>>,
      <<\h00, "brk">>, <<\h4C, "jmp", "absolute">>,
      <<\h6C, "jmp", "indirect">>, <<\h20, "jsr">>, <<\hEA, "nop">>,
      <<\h60, "rts">>, <<\h18, "clc">>, <<\h38, "sec">>, <<\h58, "cli">>,
      <<\h78, "sei">>, <<\hD8, "cld">>, <<\hF8, "sed">>, <<\hB8, "clv">>,
      <<\hA9, "lda", "IMMEDIATE">>, <<\hA5, "lda", "ZERO_PAGE">>,
      <<\hB5, "lda", "ZERO_PAGE_X">>, <<\hAD, "lda", "ABSOLUTE">>,
      <<\hBD, "lda", "ABSOLUTE_X">>, <<\hB9, "lda", "ABSOLUTE_Y">>,
      <<\hA1, "lda", "INDIRECT_X">>, <<\hB1, "lda", "INDIRECT_Y">>,
      <<\hA2, "ldx", "IMMEDIATE">>, <<\hA6, "ldx", "ZERO_PAGE">>,
      <<\hB6, "ldx", "ZERO_PAGE_Y">>, <<\hAE, "ldx", "ABSOLUTE">>,
      <<\hBE, "ldx", "ABSOLUTE_Y">>, <<\hA0, "ldy", "IMMEDIATE">>,
      <<\hA4, "ldy", "ZERO_PAGE">>, <<\hB4, "ldy", "ZERO_PAGE_X">>,
      <<\hAC, "ldy", "ABSOLUTE">>, <<\hBC, "ldy", "ABSOLUTE_X">>,
      <<\h85, "sta", "ZERO_PAGE">>, <<\h95, "sta", "ZERO_PAGE_X">>,
      <<\h8D, "sta", "ABSOLUTE">>, <<\h9D, "sta", "ABSOLUTE_X">>,
      <<\h99, "sta", "ABSOLUTE_Y">>, <<\h81, "sta", "INDIRECT_X">>,
      <<\h91, "sta", "INDIRECT_Y">>, <<\h86, "stx", "ZERO_PAGE">>,
      <<\h96, "stx", "ZERO_PAGE_Y">>, <<\h8E, "stx", "ABSOLUTE">>,
      <<\h84, "sty", "ZERO_PAGE">>, <<\h94, "sty", "ZERO_PAGE_X">>,
      <<\h8C, "sty", "ABSOLUTE">>, <<\hAA, "tax">>, <<\hA8, "tay">>,
      <<\hBA, "tsx">>, <<\h8A, "txa">>, <<\h9A, "txs">>, <<\h98, "tya">>,
      <<\h48, "pha">>, <<\h08, "php">>, <<\h68, "pla">>, <<\h28, "plp">>,
      <<\hC6, "dec", "ZERO_PAGE">>, <<\hD6, "dec", "ZERO_PAGE_X">>,
      <<\hCE, "dec", "ABSOLUTE">>, <<\hDE, "dec", "ABSOLUTE_X">>,
      <<\hCA, "dex">>, <<\h88, "dey">>, <<\hE6, "inc", "ZERO_PAGE">>,
      <<\hF6, "inc", "ZERO_PAGE_X">>, <<\hEE, "inc", "ABSOLUTE">>,
      <<\hFE, "inc", "ABSOLUTE_X">>, <<\hE8, "inx">>, <<\hC8, "iny">>,
      <<\h0A, "asl">>, <<\h06, "asl", "ZERO_PAGE">>,
      <<\h16, "asl", "ZERO_PAGE_X">>, <<\h0E, "asl", "ABSOLUTE">>,
      <<\h1E, "asl", "ABSOLUTE_X">>, <<\h4A, "lsr">>,
      <<\h46, "lsr", "ZERO_PAGE">>, <<\h56, "lsr", "ZERO_PAGE_X">>,
      <<\h4E, "lsr", "ABSOLUTE">>, <<\h5E, "lsr", "ABSOLUTE_X">>,
      <<\h2A, "rol">>, <<\h26, "rol", "ZERO_PAGE">>,
      <<\h36, "rol", "ZERO_PAGE_X">>, <<\h2E, "rol", "ABSOLUTE">>,
      <<\h3E, "rol", "ABSOLUTE_X">>, <<\h6A, "ror">>,
      <<\h66, "ror", "ZERO_PAGE">>, <<\h76, "ror", "ZERO_PAGE_X">>,
      <<\h6E, "ror", "ABSOLUTE">>, <<\h7E, "ror", "ABSOLUTE_X">>,
      <<\h69, "adc", "IMMEDIATE">>, <<\h65, "adc", "ZERO_PAGE">>,
      <<\h75, "adc", "ZERO_PAGE_X">>, <<\h6D, "adc", "ABSOLUTE">>,
      <<\h7D, "adc", "ABSOLUTE_X">>, <<\h79, "adc", "ABSOLUTE_Y">>,
      <<\h61, "adc", "INDIRECT_X">>, <<\h71, "adc", "INDIRECT_Y">>,
      <<\h29, "and_op", "IMMEDIATE">>, <<\h25, "and_op", "ZERO_PAGE">>,
      <<\h35, "and_op", "ZERO_PAGE_X">>, <<\h2D, "and_op", "ABSOLUTE">>,
      <<\h3D, "and_op", "ABSOLUTE_X">>, <<\h39, "and_op", "ABSOLUTE_Y">>,
      <<\h21, "and_op", "INDIRECT_X">>, <<\h31, "and_op", "INDIRECT_Y">>,
      <<\h49, "eor", "IMMEDIATE">>, <<\h45, "eor", "ZERO_PAGE">>,
      <<\h55, "eor", "ZERO_PAGE_X">>, <<\h4D, "eor", "ABSOLUTE">>,
      <<\h5D, "eor", "ABSOLUTE_X">>, <<\h59, "eor", "ABSOLUTE_Y">>,
      <<\h41, "eor", "INDIRECT_X">>, <<\h51, "eor", "INDIRECT_Y">>,
      <<\h09, "ora", "IMMEDIATE">>, <<\h05, "ora", "ZERO_PAGE">>,
      <<\h15, "ora", "ZERO_PAGE_X">>, <<\h0D, "ora", "ABSOLUTE">>,
      <<\h1D, "ora", "ABSOLUTE_X">>, <<\h19, "ora", "ABSOLUTE_Y">>,
      <<\h01, "ora", "INDIRECT_X">>, <<\h11, "ora", "INDIRECT_Y">>,
      <<\hE9, "sbc", "IMMEDIATE">>, <<\hE5, "sbc", "ZERO_PAGE">>,
      <<\hF5, "sbc", "ZERO_PAGE_X">>, <<\hED, "sbc", "ABSOLUTE">>,
      <<\hFD, "sbc", "ABSOLUTE_X">>, <<\hF9, "sbc", "ABSOLUTE_Y">>,
      <<\hE1, "sbc", "INDIRECT_X">>, <<\hF1, "sbc", "INDIRECT_Y">>,
      <<\h24, "bit", "ZERO_PAGE">>, <<\h2C, "bit", "ABSOLUTE">>,
      <<\hC9, "compare", "a", "IMMEDIATE">>,
      <<\hC5, "compare", "a", "ZERO_PAGE">>,
      <<\hD5, "compare", "a", "ZERO_PAGE_X">>,
      <<\hCD, "compare", "a", "ABSOLUTE">>,
      <<\hDD, "compare", "a", "ABSOLUTE_X">>,
      <<\hD9, "compare", "a", "ABSOLUTE_Y">>,
      <<\hC1, "compare", "a", "INDIRECT_X">>,
      <<\hD1, "compare", "a", "INDIRECT_Y">>,
      <<\hE0, "compare", "x", "IMMEDIATE">>,
      <<\hE4, "compare", "x", "ZERO_PAGE">>,
      <<\hEC, "compare", "x", "ABSOLUTE">>,
      <<\hC0, "compare", "y", "IMMEDIATE">>,
      <<\hC4, "compare", "y", "ZERO_PAGE">>,
      <<\hCC, "compare", "y", "ABSOLUTE">> }

\* CPU6502.build_opcode_table: opcode -> its binding
opcodes == [op \in {b[1] : b \in OpcodeBindings} |->
               CHOOSE b \in OpcodeBindings : b[1] = op]

\* The @opcode decorators on the given methods
Bindings(methods) == {b \in OpcodeBindings : b[2] \in methods}

\* handler() when the binding gives no keyword argument to a method that
\* requires `mode`: the call raises TypeError before the method runs
missing_argument(c) == Upd(c, [c EXCEPT !.exc = "TypeError"])

\* handler(): the bound method called with its keyword arguments
handler(c, b) ==
    CASE b[2] = "branch" -> branch(c, b[3], b[4])
      [] b[2] = "compare" -> compare(c, b[3], b[4])
      [] b[2] = "adc" -> adc(c, b[3])
      [] b[2] = "and_op" -> and_op(c, b[3])
      [] b[2] = "asl" -> IF Len(b) < 3 THEN missing_argument(c) ELSE asl(c, b[3])
      [] b[2] = "bit" -> bit(c, b[3])
      [] b[2] = "brk" -> brk(c)
      [] b[2] = "clc" -> clc(c)
      [] b[2] = "cld" -> cld(c)
      [] b[2] = "cli" -> cli(c)
      [] b[2] = "clv" -> clv(c)
      [] b[2] = "dec" -> dec(c, b[3])
      [] b[2] = "dex" -> dex(c)
      [] b[2] = "dey" -> dey(c)
      [] b[2] = "eor" -> eor(c, b[3])
      [] b[2] = "inc" -> inc(c, b[3])
      [] b[2] = "inx" -> inx(c)
      [] b[2] = "iny" -> iny(c)
      [] b[2] = "jmp" -> jmp(c, b[3])
      [] b[2] = "jsr" -> jsr(c)
      [] b[2] = "lda" -> lda(c, b[3])
      [] b[2] = "ldx" -> ldx(c, b[3])
      [] b[2] = "ldy" -> ldy(c, b[3])
      [] b[2] = "lsr" -> IF Len(b) < 3 THEN missing_argument(c) ELSE lsr(c, b[3])
      [] b[2] = "nop" -> nop(c)
      [] b[2] = "ora" -> ora(c, b[3])
      [] b[2] = "pha" -> pha(c)
      [] b[2] = "php" -> php(c)
      [] b[2] = "pla" -> pla(c)
      [] b[2] = "plp" -> plp(c)
      [] b[2] = "rol" -> IF Len(b) < 3 THEN missing_argument(c) ELSE rol(c, b[3])
      [] b[2] = "ror" -> IF Len(b) < 3 THEN missing_argument(c) ELSE ror(c, b[3])
      [] b[2] = "rts" -> rts(c)
      [] b[2] = "sbc" -> sbc(c, b[3])
      [] b[2] = "sec" -> sec(c)
      [] b[2] = "sed" -> sed(c)
      [] b[2] = "sei" -> sei(c)
      [] b[2] = "sta" -> sta(c, b[3])
      [] b[2] = "stx" -> stx(c, b[3])
      [] b[2] = "sty" -> sty(c, b[3])
      [] b[2] = "tax" -> tax(c)
      [] b[2] = "tay" -> tay(c)
      [] b[2] = "tsx" -> tsx(c)
      [] b[2] = "txa" -> txa(c)
      [] b[2] = "txs" -> txs(c)
      [] b[2] = "tya" -> tya(c)

\* Fault variant of step: a byte without a binding runs nop instead of brk.
step_unbound_as_nop(c) ==
    Let(bus_read(c, c.pc, "step"), LAMBDA f :
    Let(IF f.c.exc # "none" THEN f.c
        ELSE handler(Set(f.c, "pc", f.c.pc + 1),
                     IF f.value \in DOMAIN opcodes THEN opcodes[f.value]
                     ELSE <<f.value, "nop">>),
        LAMBDA c3 :
        IF c3.exc # "none"
        THEN [c |-> c3, opcode |-> IF f.c.exc # "none" THEN -1 ELSE f.value,
              result |-> c3.exc]
        ELSE IF Bit(c3.status, STATUS_I) = 1 /\ Bit(c3.status, STATUS_B) = 1
             THEN [c |-> put_flag(c3, STATUS_B, 0), opcode |-> f.value,
                   result |-> "BRK"]
             ELSE [c |-> c3, opcode |-> f.value, result |-> "NORMAL"]))

\* step returning Break without clearing the B flag.
step_keeping_break_flag(c) ==
    Let(bus_read(c, c.pc, "step"), LAMBDA f :
    Let(IF f.c.exc # "none" THEN f.c
        ELSE handler(Set(f.c, "pc", f.c.pc + 1),
                     IF f.value \in DOMAIN opcodes THEN opcodes[f.value]
                     ELSE <<f.value, "brk">>),
        LAMBDA c3 :
        IF c3.exc # "none"
        THEN [c |-> c3, opcode |-> IF f.c.exc # "none" THEN -1 ELSE f.value,
              result |-> c3.exc]
        ELSE IF Bit(c3.status, STATUS_I) = 1 /\ Bit(c3.status, STATUS_B) = 1
             THEN [c |-> c3, opcode |-> f.value, result |-> "BRK"]
             ELSE [c |-> c3, opcode |-> f.value, result |-> "NORMAL"]))

\* CPU6502.step: [c |-> the CPU afterwards, opcode, result]; opcode is -1
\* when the fetch itself raises.  self.opcodes.get(opcode, self.brk) is the
\* binding of the byte, or brk for a byte without one.
step(c) ==
    Let(bus_read(c, c.pc, "step"), LAMBDA f :
    Let(IF f.c.exc # "none" THEN f.c
        ELSE handler(Set(f.c, "pc", f.c.pc + 1),
                     IF f.value \in DOMAIN opcodes THEN opcodes[f.value]
                     ELSE <<f.value, "brk">>),
        LAMBDA c3 :
        IF c3.exc # "none"
        THEN [c |-> c3, opcode |-> IF f.c.exc # "none" THEN -1 ELSE f.value,
              result |-> c3.exc]
        ELSE IF Bit(c3.status, STATUS_I) = 1 /\ Bit(c3.status, STATUS_B) = 1
             THEN [c |-> put_flag(c3, STATUS_B, 0), opcode |-> f.value,
                   result |-> "BRK"]
             ELSE [c |-> c3, opcode |-> f.value, result |-> "NORMAL"]))

----------------------------------------------------------------------------
(* The state machine.                                                      *)

\* The CPU object as a value, with an empty access log.
Cur ==
    [a |-> a, x |-> x, y |-> y, pc |-> pc, sp |-> sp, status |-> status,
     cycles |-> cycles, memory |-> memory, log |-> << >>, exc |-> "none"]

\* The CPU object after a call.
Install(c) ==
    /\ a' = c.a /\ x' = c.x /\ y' = c.y /\ pc' = c.pc /\ sp' = c.sp
    /\ status' = c.status /\ cycles' = c.cycles /\ memory' = c.memory
    /\ log' = c.log

\* The state after CPU6502(m).
Constructed(m) ==
    LET c == CPU6502(m)
    IN  /\ memory = c.memory
        /\ a = c.a /\ x = c.x /\ y = c.y /\ pc = c.pc /\ sp = c.sp
        /\ status = c.status /\ cycles = c.cycles /\ log = c.log
        /\ call = <<"CPU6502">> /\ opcode = -1 /\ result = <<"return", "None">>
        /\ steps = 0

\* An exception left the last call: the harness makes no further call.
Raised == result[1] = "raise"

\* How a call that may raise ended.
Outcome(raised, value) ==
    IF raised # "none" THEN <<"raise", raised>> ELSE <<"return", value>>

(* SpecMap: a MemoryMap built and used by a harness. *)

\* The blocks the harness adds: RAM of each size, and an MMIO block with a
\* register at its first and at its last offset only.
MapBlocks ==
    {MemoryBlock(n) : n \in 1..MaxSize} \cup {MMIOBlock({0, MaxSize - 1})}

\* The addresses the harness reads and writes: every address a region can
\* cover, and one above them all.
MapAddresses == 0..(MaxOffset + MaxSize)

\* The values the harness writes (one wider than a byte).
WriteValues == {\h01, \h1FE}

InitMap == Constructed(MemoryMap)

\* memory.add_block(offset, block)
AddBlock ==
    /\ ~Raised
    /\ Len(memory.regions) < MaxRegions
    /\ \E offset \in 0..MaxOffset, block \in MapBlocks :
          LET r == add_block(memory, offset, block)
          IN  /\ memory' = r.memory
              /\ call' = <<"add_block", offset, block>>
              /\ result' = Outcome(IF r.raised THEN "ValueError" ELSE "none", "self")
    /\ UNCHANGED <<a, x, y, pc, sp, status, cycles, opcode, log, steps>>

\* memory.write(address, value)
Write ==
    /\ ~Raised
    /\ \E address \in MapAddresses, value \in WriteValues :
          LET w == write(memory, address, value)
          IN  /\ memory' = w.memory
              /\ call' = <<"write", address, value>>
              /\ result' = Outcome(w.raised, "None")
    /\ UNCHANGED <<a, x, y, pc, sp, status, cycles, opcode, log, steps>>

\* memory.read(address)
Read ==
    /\ ~Raised
    /\ \E address \in MapAddresses :
          LET r == read(memory, address)
          IN  /\ call' = <<"read", address>>
              /\ result' = Outcome(r.raised, r.value)
    /\ UNCHANGED <<memory, a, x, y, pc, sp, status, cycles, opcode, log, steps>>

NextMap == AddBlock \/ Write \/ Read

SpecMap == InitMap /\ [][NextMap]_vars

----------------------------------------------------------------------------
(* Spec: a CPU6502 over 64 KiB of address space.  The harness constructs   *)
(* the CPU, may load one program image and set PC, and then calls step(),  *)
(* irq() and nmi() in any order.                                           *)

\* A 64 KiB map: RAM below 0xD000, an MMIO block with three registers at
\* 0xD000, nothing from 0xD003 to 0xDFFF, RAM from 0xE000 up.
SystemMap ==
    LET ram == add_block(MemoryMap, \h0000, MemoryBlock(\hD000)).memory
        io  == add_block(ram, \hD000, MMIOBlock({0, 1, 2})).memory
    IN  add_block(io, \hE000, MemoryBlock(\h2000)).memory

\* The memories the CPU is constructed over.
Memories == {MemoryBlock(\h10000), SystemMap}

\* Operand bytes <<lo, hi>> that follow an opcode: zero page 0x00; 0xD080
\* is in no region of SystemMap; 0x01FF is the top of the stack page; 0xFFFF
\* is the last address.
Operands ==
    {<<\h00, \h00>>, <<\h80, \hD0>>, <<\hFF, \h01>>, <<\hFF, \hFF>>}

\* Instructions run before the opcode under test: LDX #$00 / TXS (SP = 0),
\* LDA #$42, LDA #$80, CLI, SEC, SED.
Preludes ==
    {<<\hA2, \h00, \h9A>>, <<\hA9, \h42>>, <<\hA9, \h80>>, <<\h58>>, <<\h38>>,
     <<\hF8>>}

\* Opcodes run after a prelude: BRK, an opcode without handler, PHP, PLP,
\* PHA, PLA, JSR, RTS, LDA abs, STA abs.
PreludeOpcodes ==
    {\h00, \h02, \h08, \h28, \h48, \h68, \h20, \h60, \hAD, \h8D}

\* The bytes at 0x0100 and 0x0101, which a pull at SP = 0xFF and the next
\* one read.
StackImages == {<<\h00, \h00>>, <<\hDF, \hFF>>, <<\hFF, \hFF>>}

\* The opcodes that pull from the stack: PLP, PLA, RTS.
PullOpcodes == {\h28, \h68, \h60}

\* The addresses a JSR is placed at: the start of a page, the end of a page
\* (its return address is in the next page) and the last three bytes of the
\* address space.
JsrAddresses == {\h0200, \h03FE, \hFFFD}

\* Instructions run before a JSR: none (SP = 0xFF), LDX #$00 / TXS (SP = 0),
\* LDX #$01 / TXS (SP = 1).
JsrPreludes == {<< >>, <<\hA2, \h00, \h9A>>, <<\hA2, \h01, \h9A>>}

\* The bytes of a sequence placed at consecutive addresses from base.
At(base, bytes) == {<<base + i - 1, bytes[i]>> : i \in 1..Len(bytes)}

\* The IRQ/BRK vector 0x1234 and the NMI vector 0x5678.
Vectors ==
    At(IRQ_VECTOR, <<\h34, \h12>>) \cup At(NMI_VECTOR, <<\h78, \h56>>)

\* The images the harness loads, each [pc, data]: data is a set of
\* <<address, byte>>, pc the address of the first instruction.
Images ==
    \* every opcode byte at 0x0200 with each operand pair
    {[pc |-> \h0200,
      data |-> At(\h0200, <<op>> \o o) \cup Vectors] :
        op \in 0..255, o \in Operands}
    \cup
    \* the pulling opcodes over each stack content
    {[pc |-> \h0200,
      data |-> At(\h0200, <<op>>) \cup At(STACK_ROOT, st) \cup Vectors] :
        op \in PullOpcodes, st \in StackImages}
    \cup
    \* a prelude, then an opcode
    {[pc |-> \h0200,
      data |-> At(\h0200, p \o <<op, \h80, \hD0>>) \cup Vectors] :
        p \in Preludes, op \in PreludeOpcodes}
    \cup
    \* every opcode byte in the last two bytes of the address space
    {[pc |-> \hFFFE, data |-> At(\hFFFE, <<op, o>>)] :
        op \in 0..255, o \in {\h00, \hFF}}
    \cup
    {[pc |-> \hFFFF, data |-> At(\hFFFF, <<op>>)] : op \in 0..255}
    \cup
    \* a prelude, then JSR $0300 at each JSR address, and RTS at 0x0300
    {[pc |-> p - Len(pre),
      data |-> At(p - Len(pre), pre \o <<\h20, \h00, \h03>>)
               \cup At(\h0300, <<\h60>>)] :
        p \in JsrAddresses, pre \in JsrPreludes}

RECURSIVE write_all(_, _)
\* memory.write(address, byte) for every <<address, byte>> of data
write_all(m, data) ==
    IF data = {} THEN m
    ELSE LET d == CHOOSE e \in data : TRUE
         IN  write_all(write(m, d[1], d[2]).memory, data \ {d})

Init == \E m \in Memories : Constructed(m)

\* The harness writes a program image into memory and sets cpu.pc.
Load ==
    /\ call = <<"CPU6502">>
    /\ \E image \in Images :
          /\ memory' = write_all(memory, image.data)
          /\ pc' = image.pc
          /\ call' = <<"load", image.pc>>
    /\ result' = <<"return", "None">>
    /\ UNCHANGED <<a, x, y, sp, status, cycles, opcode, log, steps>>

\* cpu.step()
Step ==
    /\ ~Raised
    /\ cycles < MaxCycles
    /\ \E s \in {step(Cur)} :
          /\ Install(s.c)
          /\ opcode' = s.opcode
          /\ result' = Outcome(s.c.exc, s.result)
    /\ call' = <<"step">>
    /\ UNCHANGED steps

\* cpu.irq()
Irq ==
    /\ ~Raised
    /\ cycles < MaxCycles
    /\ \E c \in {irq(Cur)} :
          Install(c) /\ result' = Outcome(c.exc, "None")
    /\ opcode' = -1
    /\ call' = <<"irq">>
    /\ UNCHANGED steps

\* cpu.nmi()
Nmi ==
    /\ ~Raised
    /\ cycles < MaxCycles
    /\ \E c \in {nmi(Cur)} :
          Install(c) /\ result' = Outcome(c.exc, "None")
    /\ opcode' = -1
    /\ call' = <<"nmi">>
    /\ UNCHANGED steps

Next == Load \/ Step \/ Irq \/ Nmi

Spec == Init /\ [][Next]_vars

----------------------------------------------------------------------------
(* SpecRun: the harness constructs the CPU, loads one program image and    *)
(* calls run(cpu, max_steps).  max_steps is {n} for the integer n and {}   *)
(* for None.  RunLoop is one iteration of run()'s `while True`; result is  *)
(* <<"running", ...>> while run() is in its loop.                          *)

\* The largest integer the harness passes as max_steps.
MaxMaxSteps == 2

\* The values the harness passes as max_steps.
MaxStepsArguments == {{n} : n \in 0..MaxMaxSteps} \cup {{}}

\* Fault variant of the loop body of run(): a Break result does not leave
\* the loop.
run_loop_ignoring_break(c, steps_before, max_steps) ==
    Let(step(c), LAMBDA s :
        IF s.c.exc # "none"
        THEN [c |-> s.c, opcode |-> s.opcode, steps |-> steps_before,
              result |-> <<"raise", s.c.exc>>]
        ELSE IF max_steps # {} /\ \E n \in max_steps : steps_before + 1 > n
             THEN [c |-> s.c, opcode |-> s.opcode, steps |-> steps_before + 1,
                   result |-> <<"raise", "RuntimeError">>]
             ELSE [c |-> s.c, opcode |-> s.opcode, steps |-> steps_before + 1,
                   result |-> <<"running", s.result>>])

\* The body of the loop of run(): result = cpu.step(); steps += 1; break on
\* BRK; raise RuntimeError when max_steps is not None and steps > max_steps.
\* [c |-> the CPU afterwards, opcode, steps, result |-> how run() goes on]
run_loop(c, steps_before, max_steps) ==
    Let(step(c), LAMBDA s :
        IF s.c.exc # "none"
        THEN [c |-> s.c, opcode |-> s.opcode, steps |-> steps_before,
              result |-> <<"raise", s.c.exc>>]
        ELSE IF s.result = "BRK"
        THEN [c |-> s.c, opcode |-> s.opcode, steps |-> steps_before + 1,
              result |-> <<"return", "None">>]
        ELSE IF max_steps # {} /\ \E n \in max_steps : steps_before + 1 > n
             THEN [c |-> s.c, opcode |-> s.opcode, steps |-> steps_before + 1,
                   result |-> <<"raise", "RuntimeError">>]
             ELSE [c |-> s.c, opcode |-> s.opcode, steps |-> steps_before + 1,
                   result |-> <<"running", s.result>>])

\* run(cpu, max_steps) is called: steps = 0
RunEnter ==
    /\ call[1] = "load"
    /\ \E max_steps \in MaxStepsArguments : call' = <<"run", max_steps>>
    /\ steps' = 0
    /\ result' = <<"running", "None">>
    /\ UNCHANGED <<memory, a, x, y, pc, sp, status, cycles, opcode, log>>

\* One iteration of the loop of run().  Without a step limit the loop is
\* followed while cycles is below MaxCycles.
RunLoop ==
    /\ call[1] = "run"
    /\ result[1] = "running"
    /\ call[2] = {} => cycles < MaxCycles
    /\ \E r \in {run_loop(Cur, steps, call[2])} :
          /\ Install(r.c)
          /\ opcode' = r.opcode
          /\ steps' = r.steps
          /\ result' = r.result
    /\ UNCHANGED call

NextRun == Load \/ RunEnter \/ RunLoop

SpecRun == Init /\ [][NextRun]_vars

----------------------------------------------------------------------------
(* SpecAdc: ADC #M executed once from every accumulator value, operand     *)
(* byte, carry and decimal flag.  The harness sets cpu.a and the flags,    *)
(* writes the instruction at 0x0200 and calls step().                      *)

\* 0x69
ADC_IMMEDIATE == 105

\* The values of a byte.
Bytes == 0..\hFF

InitAdc ==
    \E a_initial \in Bytes, operand \in Bytes, c_in \in {0, 1}, d \in {0, 1} :
        /\ memory = write_all(MemoryBlock(\h10000),
                              At(\h0200, <<ADC_IMMEDIATE, operand>>))
        /\ a = a_initial /\ x = 0 /\ y = 0 /\ pc = \h0200 /\ sp = \hFF
        /\ status = PutBit(PutBit(CPU6502(memory).status, STATUS_C, c_in),
                           STATUS_D, d)
        /\ cycles = 0 /\ log = << >> /\ steps = 0
        /\ call = <<"load", \h0200>> /\ opcode = -1
        /\ result = <<"return", "None">>

\* cpu.step(), called once on the prepared CPU
StepOnce == call[1] = "load" /\ Step

NextAdc == StepOnce

SpecAdc == InitAdc /\ [][NextAdc]_vars

----------------------------------------------------------------------------
(* SpecSbc: SBC #M executed once in binary mode from every accumulator     *)
(* value, operand byte and carry.                                          *)

\* 0xE9
SBC_IMMEDIATE == 233

\* A CPU on zeroed 64 KiB RAM holding one two-byte instruction at 0x0200,
\* with the accumulator, carry and decimal flag set by the harness.
Prepared(instruction, a_initial, c_in, d) ==
    /\ memory = write_all(MemoryBlock(\h10000), At(\h0200, instruction))
    /\ a = a_initial /\ x = 0 /\ y = 0 /\ pc = \h0200 /\ sp = \hFF
    /\ status = PutBit(PutBit(CPU6502(memory).status, STATUS_C, c_in),
                       STATUS_D, d)
    /\ cycles = 0 /\ log = << >> /\ steps = 0
    /\ call = <<"load", \h0200>> /\ opcode = -1
    /\ result = <<"return", "None">>

InitSbc ==
    \E a_initial \in Bytes, operand \in Bytes, c_in \in {0, 1} :
        Prepared(<<SBC_IMMEDIATE, operand>>, a_initial, c_in, 0)

SpecSbc == InitSbc /\ [][StepOnce]_vars

----------------------------------------------------------------------------

(* Properties of the MemoryMap, checked under SpecMap.                     *)

\* The addresses a region covers: [offset, offset + len).
Range(r) == r.offset..top(r)

\* The regions of a map, without their order.
RegionSet(m) == {m.regions[i] : i \in 1..Len(m.regions)}

\* The regions of the map that cover address and are backed by a MemoryBlock.
BlockRegionsAt(m, address) ==
    {r \in RegionSet(m) : r.memory.kind = "MemoryBlock" /\ address \in Range(r)}

----------------------------------------------------------------------------
(* Properties of the CPU, checked under Spec.                              *)

\* The last call was one of the CPU's entry points.
CpuCalls == {"step", "irq", "nmi"}

\* address is contained in no region of the map m.
Unmapped(m, address) ==
    m.kind = "MemoryMap" /\ get_containing_region(m, address) = 0

\* The accesses of an access log made by the stack primitives.
StackAccesses(l) ==
    SelectSeq(l, LAMBDA e : e.by \in {"push_byte_to_stack", "pull_byte_from_stack"})

\* The writes of an access log.
Writes(l) == SelectSeq(l, LAMBDA e : e.op = "write")

\* The little-endian word the bus holds at address.
WordAt(m, address) == read(m, address).value + 256 * read(m, address + 1).value

\* 0xAD
LDA_ABSOLUTE == 173
\* 0x9A
TXS == 154

C5_PcInRange ==
    (call[1] \in CpuCalls /\ ~Raised) => pc \in 0..\hFFFF

\* C6: bit 5 of the status register is 1 after every step(), irq() and
\* nmi() that returns.
C6_Bit5AlwaysSet ==
    (call[1] \in CpuCalls /\ ~Raised) => Bit(status, 5) = 1

\* C7: the cycle counter never decreases; every call of step() increases it
\* by at least 2; irq() and nmi() increase it by exactly 7 or not at all.
C7_CyclesGrow ==
    [][ /\ cycles' >= cycles
        /\ call'[1] = "step" => cycles' >= cycles + 2
        /\ call'[1] \in {"irq", "nmi"} => cycles' \in {cycles, cycles + 7}
      ]_vars

RECURSIVE StackWalk(_, _)
\* The stack pointer after the stack accesses l made from stack pointer s,
\* when each of them is at the address the wrapped pointer names: a push
\* writes 0x0100 + s and goes down modulo 256, a pull goes up modulo 256
\* and reads there. -1 when an access is anywhere else.
StackWalk(s, l) ==
    IF l = << >> THEN s
    ELSE IF Head(l).op = "write"
         THEN IF Head(l).address = \h0100 + s
              THEN StackWalk((s + 255) % 256, Tail(l)) ELSE -1
         ELSE IF Head(l).address = \h0100 + ((s + 1) % 256)
              THEN StackWalk((s + 1) % 256, Tail(l)) ELSE -1

\* C8: every stack push and pull accesses only 0x0100..0x01FF and SP stays in
\* [0, 0xFF], wrapping modulo 256: a push at SP = s writes 0x0100 + s and
\* leaves (s - 1) mod 256, a pull at SP = s reads 0x0100 + (s + 1) mod 256
\* and leaves that pointer. (TXS alone sets SP otherwise: to X.)
C8_StackStaysInPageOne ==
    [][ call'[1] \in CpuCalls =>
          /\ sp' \in 0..\hFF
          /\ \A i \in 1..Len(StackAccesses(log')) :
                StackAccesses(log')[i].address \in \h0100..\h01FF
          /\ IF call'[1] = "step" /\ opcode' = TXS /\ ~Raised'
             THEN sp' = x
             ELSE sp' = StackWalk(sp, StackAccesses(log'))
      ]_vars

\* C8 witness: a push made at SP = 0x00 has written 0x0100 and left SP = 0xFF.
C8_Witness ==
    /\ call = <<"step">> /\ sp = \hFF
    /\ Len(StackAccesses(log)) = 1
    /\ StackAccesses(log)[1].op = "write"
    /\ StackAccesses(log)[1].address = \h0100

\* The opcode takes step()'s BRK path: it is 0x00 or has no handler.
BrkPath(op) == op = \h00 \/ op \notin DOMAIN opcodes

\* C9: step() returns Break if and only if the opcode it fetched took the
\* BRK path, and then the three stack bytes are written, I is set and PC
\* holds the word at 0xFFFE/0xFFFF; every other instruction returns Normal.
C9_BreakIffBrkPath ==
    (call[1] = "step" /\ opcode # -1) =>
        /\ result = <<"return", "BRK">> <=> BrkPath(opcode)
        /\ result = <<"return", "BRK">> =>
              /\ Len(Writes(log)) = 3
              /\ Bit(status, STATUS_I) = 1
              /\ pc = WordAt(memory, IRQ_VECTOR)
        /\ ~BrkPath(opcode) => result = <<"return", "NORMAL">>

\* C10: a step() that executes BRK at address p writes exactly three bytes,
\* all pushes: the high byte of p+2, the low byte of p+2, then P with B set;
\* SP has gone down by 3 modulo 256, I is 1, PC is the word at 0xFFFE/0xFFFF
\* and cycles have grown by 7.
C10_BrkPushesReturnAddressAndStatus ==
    [][ (call'[1] = "step" /\ opcode' = \h00 /\ result'[1] = "return") =>
          LET ret == (pc + 2) % \h10000
              push(k, byte) ==
                  [op |-> "write", address |-> STACK_ROOT + ((sp + 256 - k) % 256),
                   value |-> byte, by |-> "push_byte_to_stack"]
          IN  /\ Writes(log') = <<push(0, ret \div 256), push(1, ret % 256),
                                  push(2, SetBit(status, STATUS_B))>>
              /\ sp' = (sp + 256 - 3) % 256
              /\ Bit(status', STATUS_I) = 1
              /\ pc' = WordAt(memory', IRQ_VECTOR)
              /\ cycles' = cycles + 7
      ]_vars

\* C10 witness: after CLI, BRK at 0x0201 has pushed 0x02, 0x03 and P with B
\* set and I still clear, and has loaded PC from the vector 0x1234.
C10_Witness ==
    /\ call = <<"step">> /\ opcode = \h00 /\ result = <<"return", "BRK">>
    /\ read(memory, \h0200).value = \h58
    /\ read(memory, \h01FF).value = \h02 /\ read(memory, \h01FE).value = \h03
    /\ Bit(read(memory, \h01FD).value, STATUS_B) = 1
    /\ Bit(read(memory, \h01FD).value, STATUS_I) = 0
    /\ sp = \hFC /\ pc = \h1234 /\ cycles = 9
    /\ Bit(status, STATUS_I) = 1

\* C11: a step() that fetches a byte without an entry in the opcode table
\* raises no error and does what BRK at that address p does: it returns
\* Break after writing exactly three bytes, all pushes (the high byte of
\* p+2, the low byte of p+2, then P with B set), SP has gone down by 3
\* modulo 256, I is 1, PC is the word at 0xFFFE/0xFFFF and cycles have
\* grown by 7.
C11_UnboundOpcodeActsAsBrk ==
    [][ (call'[1] = "step" /\ opcode' \in 0..\hFF \ DOMAIN opcodes) =>
          LET ret == (pc + 2) % \h10000
              push(k, byte) ==
                  [op |-> "write", address |-> STACK_ROOT + ((sp + 256 - k) % 256),
                   value |-> byte, by |-> "push_byte_to_stack"]
          IN  /\ result' = <<"return", "BRK">>
              /\ Writes(log') = <<push(0, ret \div 256), push(1, ret % 256),
                                  push(2, SetBit(status, STATUS_B))>>
              /\ sp' = (sp + 256 - 3) % 256
              /\ Bit(status', STATUS_I) = 1
              /\ Bit(status', STATUS_B) = 0
              /\ pc' = WordAt(memory', IRQ_VECTOR)
              /\ cycles' = cycles + 7
              /\ <<a', x', y'>> = <<a, x, y>>
      ]_vars

\* C11 witness: after CLI, the byte 0x02 at 0x0201 (no entry in the table)
\* has pushed 0x02, 0x03 and P with B set, and PC holds the vector 0x1234.
C11_Witness ==
    /\ call = <<"step">> /\ opcode = \h02 /\ result = <<"return", "BRK">>
    /\ \h02 \notin DOMAIN opcodes
    /\ read(memory, \h0200).value = \h58
    /\ read(memory, \h01FF).value = \h02 /\ read(memory, \h01FE).value = \h03
    /\ Bit(read(memory, \h01FD).value, STATUS_B) = 1
    /\ sp = \hFC /\ pc = \h1234 /\ cycles = 9

\* The log entry of a push of byte made k pushes after the stack pointer was s.
PushEntry(s, k, byte) ==
    [op |-> "write", address |-> STACK_ROOT + ((s + 256 - k) % 256),
     value |-> byte, by |-> "push_byte_to_stack"]

\* C12: irq() called with I = 0 raises nothing, writes exactly three bytes,
\* all pushes: the high byte of PC, the low byte of PC, then P unmodified
\* with B = 0, so that the pushed return address is the PC of the
\* instruction that would have run next; it sets I, loads PC from the word
\* at 0xFFFE/0xFFFF and adds 7 cycles; and the step() that follows a taken
\* irq() fetches its opcode from the address that word names.
C12_IrqEntersHandler ==
    [][ /\ (call'[1] = "irq" /\ Bit(status, STATUS_I) = 0) =>
              /\ result' = <<"return", "None">>
              /\ Writes(log') = <<PushEntry(sp, 0, pc \div 256),
                                  PushEntry(sp, 1, pc % 256),
                                  PushEntry(sp, 2, status)>>
              /\ Bit(status, STATUS_B) = 0
              /\ status' = SetBit(status, STATUS_I)
              /\ pc' = WordAt(memory', IRQ_VECTOR)
              /\ cycles' = cycles + 7
        /\ (call = <<"irq">> /\ log # << >> /\ call'[1] = "step") =>
              /\ log'[1].op = "read" /\ log'[1].by = "step"
              /\ log'[1].address = WordAt(memory, IRQ_VECTOR)
      ]_vars

\* C13: irq() called while I = 1 changes nothing: PC, SP, A, X, Y, P, the
\* cycle counter and every memory byte are unchanged, no access is made to
\* memory and no error is raised.
C13_MaskedIrqChangesNothing ==
    [][ (call'[1] = "irq" /\ Bit(status, STATUS_I) = 1) =>
          /\ <<pc', sp', a', x', y', status', cycles'>> =
                <<pc, sp, a, x, y, status, cycles>>
          /\ memory' = memory
          /\ log' = << >>
          /\ result' = <<"return", "None">>
      ]_vars

\* C13 witness: irq() has returned on the freshly loaded CPU (I = 1) and left
\* PC at the program start, no cycle counted and the stack pointer at 0xFF.
C13_Witness ==
    /\ call = <<"irq">> /\ Bit(status, STATUS_I) = 1
    /\ log = << >> /\ cycles = 0 /\ pc = \h0200 /\ sp = \hFF
    /\ read(memory, \h0200).value # 0

\* C14: nmi() is taken whatever I holds: it raises nothing, writes exactly
\* three bytes, all pushes (bits 8..15 of PC, bits 0..7 of PC, then P
\* unmodified with B = 0), sets I, reads the vector bytes at 0xFFFA and
\* 0xFFFB and nothing else, loads PC with that little-endian word and adds
\* 7 cycles.
C14_NmiAlwaysTaken ==
    [][ call'[1] = "nmi" =>
          /\ result' = <<"return", "None">>
          /\ Writes(log') = <<PushEntry(sp, 0, (pc \div 256) % 256),
                              PushEntry(sp, 1, pc % 256),
                              PushEntry(sp, 2, status)>>
          /\ Bit(status, STATUS_B) = 0
          /\ status' = SetBit(status, STATUS_I)
          /\ sp' = (sp + 256 - 3) % 256
          /\ SelectSeq(log', LAMBDA e : e.op = "read") =
                <<[op |-> "read", address |-> NMI_VECTOR,
                   value |-> read(memory', NMI_VECTOR).value, by |-> "_interrupt"],
                  [op |-> "read", address |-> NMI_VECTOR + 1,
                   value |-> read(memory', NMI_VECTOR + 1).value, by |-> "_interrupt"]>>
          /\ pc' = WordAt(memory', NMI_VECTOR)
          /\ cycles' = cycles + 7
          /\ <<a', x', y'>> = <<a, x, y>>
      ]_vars

\* C14 witness: nmi() on the loaded CPU with I = 1 has pushed 0x02, 0x00 and
\* P with I set, and PC holds the NMI vector 0x5678, which differs from the
\* IRQ vector.
C14_Witness ==
    /\ call = <<"nmi">> /\ cycles = 7 /\ sp = \hFC
    /\ read(memory, \h01FF).value = \h02 /\ read(memory, \h01FE).value = \h00
    /\ Bit(read(memory, \h01FD).value, STATUS_I) = 1
    /\ pc = \h5678 /\ WordAt(memory, IRQ_VECTOR) = \h1234

----------------------------------------------------------------------------
(* Properties of run(), checked under SpecRun.                             *)

\* run() is in its loop / has ended.
Running == call[1] = "run" /\ result[1] = "running"
RunEnded == call[1] = "run" /\ result[1] # "running"

\* C15: run() returns normally exactly when the step() it has just called
\* returned Break; the CPU is then as that step() left it; and once run()
\* has ended, by return or by an error, no further step() is called.
C15_RunReturnsOnBreak ==
    [][ /\ Running =>
              /\ result' = <<"return", "None">> <=>
                    (step(Cur).c.exc = "none" /\ step(Cur).result = "BRK")
              /\ result' = <<"return", "None">> =>
                    /\ <<memory', a', x', y', pc', sp', status', cycles'>> =
                          <<step(Cur).c.memory, step(Cur).c.a, step(Cur).c.x,
                            step(Cur).c.y, step(Cur).c.pc, step(Cur).c.sp,
                            step(Cur).c.status, step(Cur).c.cycles>>
                    /\ BrkPath(opcode')
                    /\ Bit(status', STATUS_I) = 1 /\ Bit(status', STATUS_B) = 0
        /\ RunEnded => UNCHANGED vars
      ]_vars

\* C15 witness: run() has returned after two steps, LDA #$42 and then a BRK
\* at 0x0202 that loaded PC from the vector 0x1234.
C15_Witness ==
    /\ call[1] = "run" /\ result = <<"return", "None">>
    /\ steps = 2 /\ a = \h42 /\ opcode = \h00 /\ pc = \h1234 /\ cycles = 9
    /\ read(memory, \h01FF).value = \h02 /\ read(memory, \h01FE).value = \h04

\* C16: run(cpu, max_steps = n) with n not None never executes more than n
\* steps, and the step-limit RuntimeError is raised once n steps have been
\* executed.
C16_RunStopsAtStepLimit ==
    (call[1] = "run" /\ call[2] # {}) =>
        \A n \in call[2] :
            /\ steps <= n
            /\ result = <<"raise", "RuntimeError">> => steps = n

----------------------------------------------------------------------------
(* Properties of single instructions, checked under Spec.                  *)

\* 0x20
JSR == 32
\* 0x60
RTS == 96

\* C17: when a step() that executed the JSR at address p from stack pointer
\* s is immediately followed by a step() that executes RTS, the JSR has
\* pushed the high and then the low byte of p+2, and after the RTS PC is
\* (p + 3) mod 0x10000 and SP is s again.
C17_JsrThenRtsReturnsAfterJsr ==
    [][ (/\ call = <<"step">> /\ opcode = JSR /\ ~Raised
         /\ call'[1] = "step" /\ opcode' = RTS /\ ~Raised') =>
          LET p == log[1].address
              s == (sp + 2) % 256
              ret == (p + 2) % \h10000
          IN  /\ Writes(log) = <<PushEntry(s, 0, ret \div 256),
                                 PushEntry(s, 1, ret % 256)>>
              /\ pc' = (p + 3) % \h10000
              /\ sp' = s
      ]_vars

\* 0x4C
JMP_ABSOLUTE == 76
\* 0x6C
JMP_INDIRECT == 108

\* C18: a step() that executes JMP (indirect) at address p, with the pointer
\* q in its operand bytes, reads the target low byte at q and the target
\* high byte at (q & 0xFF00) | ((q + 1) & 0x00FF) and nowhere else, loads
\* PC with that word and adds 5 cycles; JMP absolute loads PC with q and
\* adds 3 cycles.
C18_JmpIndirectWrapsInPage ==
    [][ (call'[1] = "step" /\ opcode' \in {JMP_ABSOLUTE, JMP_INDIRECT} /\ ~Raised') =>
          LET q == read(memory, pc + 1).value
                   + 256 * read(memory, (pc + 2) % \h10000).value
              q_hi == (q \div 256) * 256 + ((q + 1) % 256)
              fetches == <<pc, pc + 1, (pc + 2) % \h10000>>
          IN  /\ memory' = memory
              /\ opcode' = JMP_INDIRECT =>
                    /\ [i \in 1..Len(log') |-> log'[i].address] = fetches \o <<q, q_hi>>
                    /\ pc' = read(memory, q).value + 256 * read(memory, q_hi).value
                    /\ cycles' = cycles + 5
              /\ opcode' = JMP_ABSOLUTE =>
                    /\ [i \in 1..Len(log') |-> log'[i].address] = fetches
                    /\ pc' = q
                    /\ cycles' = cycles + 3
      ]_vars

\* C18 witness: JMP ($01FF) at 0x0200 has read the low byte at 0x01FF and the
\* high byte at 0x0100 (0x00), not at 0x0200 (0x6C), and PC is 0x0000.
C18_Witness ==
    /\ call = <<"step">> /\ opcode = JMP_INDIRECT /\ ~Raised
    /\ Len(log) = 5 /\ log[1].address = \h0200
    /\ log[4].address = \h01FF /\ log[5].address = \h0100
    /\ read(memory, \h0200).value = \h6C /\ read(memory, \h0100).value = \h00
    /\ pc = \h0000 /\ cycles = 5

----------------------------------------------------------------------------
(* Properties of ADC, checked under SpecAdc.                               *)

\* Each nibble of the byte is at most 9.
IsBcd(byte) == byte % 16 <= 9 /\ byte \div 16 <= 9

\* The number the two decimal digits of a BCD byte stand for.
BcdValue(byte) == (byte \div 16) * 10 + (byte % 16)

\* C19: ADC with D = 0, for all A, M in [0, 255] and C_in in {0, 1}, raises
\* nothing and leaves A = (A + M + C_in) & 0xFF, C = (A + M + C_in) >> 8,
\* V = 1 exactly when A and M have the same sign bit and the result has the
\* other one, Z = 1 iff the new A is 0, N = bit 7 of the new A.
C19_AdcBinary ==
    [][ (call'[1] = "step" /\ opcode' = ADC_IMMEDIATE /\ Bit(status, STATUS_D) = 0) =>
          LET m == read(memory, pc + 1).value
              sum == a + m + Bit(status, STATUS_C)
          IN  /\ result' = <<"return", "NORMAL">>
              /\ a' = sum % 256
              /\ Bit(status', STATUS_C) = sum \div 256
              /\ Bit(status', STATUS_V) = 1 <=>
                    (Bit(a, 7) = Bit(m, 7) /\ Bit(a', 7) # Bit(a, 7))
              /\ Bit(status', STATUS_Z) = 1 <=> a' = 0
              /\ Bit(status', STATUS_N) = Bit(a', 7)
      ]_vars

\* C19 witness: ADC #$80 with D = 0 has left A = 0x40 with C = 1 and V = 1
\* (0xC0 + 0x80: two negative inputs, a positive result).
C19_Witness ==
    /\ call = <<"step">> /\ opcode = ADC_IMMEDIATE /\ ~Raised
    /\ Bit(status, STATUS_D) = 0
    /\ read(memory, \h0201).value = \h80 /\ a = \h40
    /\ Bit(status, STATUS_C) = 1 /\ Bit(status, STATUS_V) = 1
    /\ Bit(status, STATUS_Z) = 0 /\ Bit(status, STATUS_N) = 0

\* C20: ADC with D = 1 and A and M both valid BCD, for both values of C_in,
\* raises nothing and leaves A valid BCD with the value
\* (dec(A) + dec(M) + C_in) mod 100, and C = 1 iff dec(A) + dec(M) + C_in
\* is at least 100.
C20_AdcDecimal ==
    [][ (/\ call'[1] = "step" /\ opcode' = ADC_IMMEDIATE
         /\ Bit(status, STATUS_D) = 1
         /\ IsBcd(a) /\ IsBcd(read(memory, pc + 1).value)) =>
          LET m == read(memory, pc + 1).value
              sum == BcdValue(a) + BcdValue(m) + Bit(status, STATUS_C)
          IN  /\ result' = <<"return", "NORMAL">>
              /\ IsBcd(a')
              /\ BcdValue(a') = sum % 100
              /\ Bit(status', STATUS_C) = 1 <=> sum >= 100
      ]_vars

\* C20 witness: ADC #$27 with D = 1 has left A = 0x15 with C = 1
\* (88 + 27 = 115, or 87 + 27 + 1).
C20_Witness ==
    /\ call = <<"step">> /\ opcode = ADC_IMMEDIATE /\ ~Raised
    /\ Bit(status, STATUS_D) = 1
    /\ read(memory, \h0201).value = \h27 /\ a = \h15
    /\ Bit(status, STATUS_C) = 1

----------------------------------------------------------------------------
(* SBC against ADC, checked under SpecSbc.                                 *)

\* The CPU after ADC #(~M & 0xFF) stepped from the current registers and
\* flags, M being the operand byte of the instruction at PC.
AdcOfComplement ==
    step([Cur EXCEPT !.memory =
              write_all(MemoryBlock(\h10000),
                        At(pc, <<ADC_IMMEDIATE,
                                 255 - read(memory, pc + 1).value>>))]).c

\* The flags C, Z, N and V of a status byte.
ArithmeticFlags(p) ==
    <<Bit(p, STATUS_C), Bit(p, STATUS_Z), Bit(p, STATUS_N), Bit(p, STATUS_V)>>

\* C21: with D = 0, for all A, M in [0, 255] and C_in in {0, 1}, SBC #M leaves
\* the same A and the same C, Z, N and V flags as ADC #(~M & 0xFF) stepped
\* from the same starting state.
C21_SbcIsAdcOfComplement ==
    [][ (call'[1] = "step" /\ opcode' = SBC_IMMEDIATE /\ Bit(status, STATUS_D) = 0) =>
          /\ result' = <<"return", "NORMAL">>
          /\ AdcOfComplement.exc = "none"
          /\ a' = AdcOfComplement.a
          /\ ArithmeticFlags(status') = ArithmeticFlags(AdcOfComplement.status)
      ]_vars

\* C21 witness: SBC #$01 with C = 1 has left A = 0x7F with V = 1 and C = 1
\* (0x80 - 0x01: a negative minus a positive giving a positive).
C21_Witness ==
    /\ call = <<"step">> /\ opcode = SBC_IMMEDIATE /\ ~Raised
    /\ Bit(status, STATUS_D) = 0
    /\ read(memory, \h0201).value = \h01 /\ a = \h7F
    /\ ArithmeticFlags(status) = <<1, 0, 0, 1>>

----------------------------------------------------------------------------
(* SpecBcd: ADC #M and SBC #M executed once in decimal mode from every     *)
(* valid BCD accumulator value and operand byte, and either carry.         *)

InitBcd ==
    \E op \in {ADC_IMMEDIATE, SBC_IMMEDIATE}, a_initial \in {b \in Bytes : IsBcd(b)},
       operand \in {b \in Bytes : IsBcd(b)}, c_in \in {0, 1} :
        Prepared(<<op, operand>>, a_initial, c_in, 1)

SpecBcd == InitBcd /\ [][StepOnce]_vars

----------------------------------------------------------------------------
(* SpecCmp: CMP, CPX and CPY executed once in each of their addressing     *)
(* modes.  CMP #M runs from every register value and operand byte; the     *)
(* other opcodes run from the values at the edges of the byte range.  The  *)
(* operand is at 0x0201 (immediate), 0x0010 (zero-page modes) or 0x0300    *)
(* (absolute and indirect modes); the indexed modes reach it through a     *)
(* non-zero index, the absolute-indexed and (indirect),Y ones across a     *)
(* page boundary.                                                          *)

\* Where the harness puts the operand of an instruction at 0x0200.
OperandAddress(mode) ==
    CASE mode = "IMMEDIATE" -> \h0201
      [] mode \in {"ZERO_PAGE", "ZERO_PAGE_X", "ZERO_PAGE_Y"} -> \h0010
      [] OTHER -> \h0300

\* The bytes after the opcode, and the pointer the indirect modes follow.
OperandBytes(mode, operand) ==
    CASE mode = "IMMEDIATE" -> At(\h0201, <<operand>>)
      [] mode = "ZERO_PAGE" -> At(\h0201, <<\h10>>)
      [] mode \in {"ZERO_PAGE_X", "ZERO_PAGE_Y"} -> At(\h0201, <<\hF0>>)
      [] mode = "ABSOLUTE" -> At(\h0201, <<\h00, \h03>>)
      [] mode \in {"ABSOLUTE_X", "ABSOLUTE_Y"} -> At(\h0201, <<\hF0, \h02>>)
      [] mode = "INDIRECT_X" -> At(\h0201, <<\h20>>) \cup At(\h0024, <<\h00, \h03>>)
      [] mode = "INDIRECT_Y" -> At(\h0201, <<\h24>>) \cup At(\h0024, <<\hF0, \h02>>)

\* The value a register holds before the instruction: the compared value in
\* the compared register, in the index register of the mode the index that
\* leads to OperandAddress(mode), and a value of its own in a register the
\* instruction does not use.
RegisterValue(name, register, register_value, mode, other) ==
    LET IndexRegister ==
            CASE mode \in {"ZERO_PAGE_X", "ABSOLUTE_X", "INDIRECT_X"} -> "x"
              [] mode \in {"ZERO_PAGE_Y", "ABSOLUTE_Y", "INDIRECT_Y"} -> "y"
              [] OTHER -> "none"
        IndexValue ==
            CASE mode \in {"ZERO_PAGE_X", "ZERO_PAGE_Y"} -> \h20
              [] mode \in {"ABSOLUTE_X", "ABSOLUTE_Y", "INDIRECT_Y"} -> \h10
              [] mode = "INDIRECT_X" -> \h04
              [] OTHER -> 0
    IN  IF name = register THEN register_value
        ELSE IF name = IndexRegister THEN IndexValue
        ELSE other

InitCmp ==
    \E b \in Bindings({"compare"}), c_in \in {0, 1} :
    \E register_value \in IF b[1] = \hC9 THEN Bytes ELSE {\h00, \h01, \h7F, \h80, \hFF},
       operand \in IF b[1] = \hC9 THEN Bytes ELSE {\h00, \h01, \h7F, \h80, \hFF} :
        /\ memory = write_all(MemoryBlock(\h10000),
                              At(\h0200, <<b[1]>>)
                                  \cup At(OperandAddress(b[4]), <<operand>>)
                                  \cup OperandBytes(b[4], operand))
        /\ a = RegisterValue("a", b[3], register_value, b[4], \h55)
        /\ x = RegisterValue("x", b[3], register_value, b[4], \h66)
        /\ y = RegisterValue("y", b[3], register_value, b[4], \h77)
        /\ pc = \h0200 /\ sp = \hFF
        /\ status = PutBit(CPU6502(memory).status, STATUS_C, c_in)
        /\ cycles = 0 /\ log = << >> /\ steps = 0
        /\ call = <<"load", \h0200>> /\ opcode = -1
        /\ result = <<"return", "None">>

SpecCmp == InitCmp /\ [][StepOnce]_vars

\* C23: CMP, CPX and CPY, for every register value R and operand M and in
\* every addressing mode, leave A, X, Y and the V flag unchanged, set C to 1
\* iff R >= M, Z to 1 iff R = M and N to bit 7 of (R - M) & 0xFF, whatever
\* the incoming C.
C23_CompareSetsCZN ==
    [][ (call'[1] = "step" /\ opcode' \in {b[1] : b \in Bindings({"compare"})}) =>
          LET register == opcodes[opcode'][3]
              R == IF register = "a" THEN a ELSE IF register = "x" THEN x ELSE y
              M == read(memory, OperandAddress(opcodes[opcode'][4])).value
          IN  /\ result' = <<"return", "NORMAL">>
              /\ a' = a /\ x' = x /\ y' = y
              /\ Bit(status', STATUS_V) = Bit(status, STATUS_V)
              /\ Bit(status', STATUS_C) = 1 <=> R >= M
              /\ Bit(status', STATUS_Z) = 1 <=> R = M
              /\ Bit(status', STATUS_N) = Bit((R - M) % 256, 7)
      ]_vars

\* C23 witness: CMP ($24),Y with A = 0x7F against 0xFF, entered with C = 1,
\* has left C = 0, Z = 0 and N = 1.
C23_Witness ==
    /\ call = <<"step">> /\ opcode = \hD1 /\ ~Raised
    /\ a = \h7F /\ read(memory, \h0300).value = \hFF
    /\ Bit(status, STATUS_C) = 0 /\ Bit(status, STATUS_Z) = 0
    /\ Bit(status, STATUS_N) = 1
    /\ cycles = 6

----------------------------------------------------------------------------
(* SpecBranch: each branch opcode executed once, with every offset byte    *)
(* and either value of the tested flag, at addresses in the middle of a    *)
(* page, just before a page boundary and at the top of the address space.  *)

\* The addresses p of the branch opcode have p + 2 in the middle of a page, on
\* its last byte, on the first byte of the next page, and around 0x10000.
InitBranch ==
    \E b \in Bindings({"branch"}), o \in Bytes, flag \in {0, 1},
       p \in {\h0200, \h02FD, \h02FE, \hFFFD, \hFFFE, \hFFFF} :
        /\ memory = write_all(MemoryBlock(\h10000),
                              {<<p, b[1]>>, <<(p + 1) % 65536, o>>})
        /\ a = \h55 /\ x = \h66 /\ y = \h77 /\ pc = p /\ sp = \hFF
        /\ status = PutBit(CPU6502(memory).status, b[3], flag)
        /\ cycles = 0 /\ log = << >> /\ steps = 0
        /\ call = <<"load", p>> /\ opcode = -1
        /\ result = <<"return", "None">>

SpecBranch == InitBranch /\ [][StepOnce]_vars

\* The signed value of an offset byte.
signed8(o) == IF o >= 128 THEN o - 256 ELSE o

\* The high byte of a 16-bit address.
HighByte(address) == (address % 65536) \div 256

\* C24: a branch opcode at p with offset byte o leaves PC = p + 2 after 2
\* cycles when the tested flag does not have the required value; otherwise
\* PC = (p + 2 + signed8(o)) mod 0x10000 after 3 cycles, or 4 exactly when
\* the high bytes of the new PC and of p + 2 differ.  No other register and
\* no flag changes.
C24_BranchTargetAndCycles ==
    [][ (call'[1] = "step" /\ opcode' \in {b[1] : b \in Bindings({"branch"})}) =>
          LET b == opcodes[opcode']
              p == pc
              o == read(memory, (p + 1) % 65536).value
              target == (p + 2 + signed8(o)) % 65536
          IN  /\ result' = <<"return", "NORMAL">>
              /\ a' = a /\ x' = x /\ y' = y /\ sp' = sp /\ status' = status
              /\ IF Bit(status, b[3]) # b[4]
                 THEN pc' = p + 2 /\ cycles' = cycles + 2
                 ELSE /\ pc' = target
                      /\ cycles' = cycles + IF HighByte(target) # HighByte(p + 2)
                                            THEN 4 ELSE 3
      ]_vars

----------------------------------------------------------------------------
(* SpecLoad: LDA, LDX and LDY executed once in each of their addressing    *)
(* modes, with operand bytes, pointers and index registers that reach the  *)
(* operand within a page, across a page boundary and across 0xFFFF.        *)

\* lo is the first operand byte (a zero-page address or the low byte of a
\* base), hi the high byte of an absolute base, base the address an indirect
\* pointer holds.
InitLoad ==
    \E b \in Bindings({"lda", "ldx", "ldy"}),
       index_x \in {\h00, \h01, \h10, \hFF}, index_y \in {\h00, \h01, \h10, \hFF},
       lo \in {\h00, \h20, \hF0, \hFF} :
    \E hi \in IF b[3] \in {"ABSOLUTE", "ABSOLUTE_X", "ABSOLUTE_Y"}
              THEN {\h03, \hFF} ELSE {0},
       base \in IF b[3] \in {"INDIRECT_X", "INDIRECT_Y"}
                THEN {\h0300, \h03F0, \h03FF, \hFFF0, \hFFFF} ELSE {0} :
        LET addr_zp == IF b[3] = "INDIRECT_X" THEN (lo + index_x) % 256 ELSE lo
        IN  /\ memory = write_all(MemoryBlock(\h10000),
                             At(\h0200, <<b[1], lo, hi>>)
                               \cup IF b[3] \in {"INDIRECT_X", "INDIRECT_Y"}
                                    THEN {<<addr_zp, base % 256>>,
                                          <<(addr_zp + 1) % 256, base \div 256>>}
                                    ELSE {})
            /\ a = \h55 /\ x = index_x /\ y = index_y /\ pc = \h0200 /\ sp = \hFF
            /\ status = CPU6502(memory).status
            /\ cycles = 0 /\ log = << >> /\ steps = 0
            /\ call = <<"load", \h0200>> /\ opcode = -1
            /\ result = <<"return", "None">>

SpecLoad == InitLoad /\ [][StepOnce]_vars

\* The base count of an addressing mode of a load.
LoadBaseCount(mode) ==
    CASE mode = "IMMEDIATE" -> 2
      [] mode = "ZERO_PAGE" -> 3
      [] mode \in {"ZERO_PAGE_X", "ZERO_PAGE_Y"} -> 4
      [] mode \in {"ABSOLUTE", "ABSOLUTE_X", "ABSOLUTE_Y"} -> 4
      [] mode = "INDIRECT_X" -> 6
      [] mode = "INDIRECT_Y" -> 5

\* The base address an indexed load adds its index to: the operand word
\* (Absolute,X and Absolute,Y) or the word the zero-page pointer holds
\* ((Indirect),Y).
LoadBase(mode) ==
    IF mode = "INDIRECT_Y"
    THEN LET addr_zp == read(memory, pc + 1).value
         IN  read(memory, addr_zp).value
                 + 256 * read(memory, (addr_zp + 1) % 256).value
    ELSE WordAt(memory, pc + 1)

\* C25: a load costs the base count of its addressing mode, plus exactly 1
\* when the mode is Absolute,X, Absolute,Y or (Indirect),Y and the pages of
\* base and of effective = (base + index) mod 0x10000 differ; no other mode
\* pays the extra cycle.
C25_LoadCycles ==
    [][ (call'[1] = "step" /\ opcode' \in {b[1] : b \in Bindings({"lda", "ldx", "ldy"})}) =>
          LET mode == opcodes[opcode'][3]
              index == IF mode = "ABSOLUTE_X" THEN x ELSE y
              effective == (LoadBase(mode) + index) % 65536
              crossed == /\ mode \in {"ABSOLUTE_X", "ABSOLUTE_Y", "INDIRECT_Y"}
                         /\ LoadBase(mode) \div 256 # effective \div 256
          IN  /\ result' = <<"return", "NORMAL">>
              /\ cycles' = cycles + LoadBaseCount(mode) + IF crossed THEN 1 ELSE 0
      ]_vars

\* C25 witness: LDA ($FF),Y, its pointer at 0x00FF and 0x0000 holding 0xFFF0,
\* with Y = 0x10 has read 0x0000 across the top of the address space and
\* taken 6 cycles.
C25_Witness ==
    /\ call = <<"step">> /\ opcode = \hB1 /\ ~Raised
    /\ read(memory, \h0201).value = \hFF
    /\ read(memory, \h00FF).value = \hF0 /\ read(memory, \h0000).value = \hFF
    /\ y = \h10 /\ cycles = 6
    /\ log[Len(log)].address = \h0000

----------------------------------------------------------------------------
\* C33: under SpecLoad, the bus reads of a load in a zero-page mode are the
\* opcode at PC, the operand byte z at PC + 1 and then: in Zero-page,X and
\* Zero-page,Y the data at (z + index) & 0xFF; in (Indirect,X) the pointer
\* bytes at (z + X) & 0xFF and (z + X + 1) & 0xFF and the data at the word
\* they hold; in (Indirect),Y the pointer bytes at z and (z + 1) & 0xFF and
\* the data at that word plus Y.  No pointer byte is read above 0x00FF.
C33_ZeroPageWraps ==
    [][ (call'[1] = "step"
            /\ opcode' \in {b[1] : b \in Bindings({"lda", "ldx", "ldy"})}
            /\ opcodes[opcode'][3] \in {"ZERO_PAGE_X", "ZERO_PAGE_Y",
                                        "INDIRECT_X", "INDIRECT_Y"}) =>
          LET mode == opcodes[opcode'][3]
              z == read(memory, pc + 1).value
              addresses == [i \in 1..Len(log') |-> log'[i].address]
              word(lo, hi) == read(memory, lo).value + 256 * read(memory, hi).value
          IN  /\ result' = <<"return", "NORMAL">>
              /\ \A i \in 1..Len(log') : log'[i].op = "read"
              /\ mode = "ZERO_PAGE_X" => addresses = <<pc, pc + 1, (z + x) % 256>>
              /\ mode = "ZERO_PAGE_Y" => addresses = <<pc, pc + 1, (z + y) % 256>>
              /\ mode = "INDIRECT_X" =>
                    addresses = <<pc, pc + 1, (z + x) % 256, (z + x + 1) % 256,
                                  word((z + x) % 256, (z + x + 1) % 256)>>
              /\ mode = "INDIRECT_Y" =>
                    addresses = <<pc, pc + 1, z, (z + 1) % 256,
                                  (word(z, (z + 1) % 256) + y) % 65536>>
              /\ \A i \in 3..(Len(log') - 1) : log'[i].address <= \h00FF
      ]_vars

\* C33 witness: LDA ($00,X) with X = 0xFF has read its pointer at 0x00FF and
\* 0x0000.
C33_Witness ==
    /\ call = <<"step">> /\ opcode = \hA1 /\ ~Raised
    /\ read(memory, \h0201).value = \h00 /\ x = \hFF
    /\ Len(log) = 5 /\ log[3].address = \h00FF /\ log[4].address = \h0000

----------------------------------------------------------------------------

(* SpecStack: php() and plp() called on a CPU over 64 KiB of RAM, from     *)
(* every status byte, with the stack pointer at the ends of the stack      *)
(* page and a byte already on the stack.                                   *)

\* The cycles after which the harness makes no further call.
MaxStackCycles == 7

InitStack ==
    \E p \in Bytes, s \in {\hFF, \h00, \h01},
       byte \in {\h00, \h10, \h20, \h30, \hCF, \hEF, \hFF} :
        /\ memory = write_all(MemoryBlock(\h10000),
                              {<<STACK_ROOT + ((s + 1) % 256), byte>>})
        /\ a = 0 /\ x = 0 /\ y = 0 /\ pc = \h0200 /\ sp = s /\ status = p
        /\ cycles = 0 /\ log = << >> /\ steps = 0
        /\ call = <<"load", \h0200>> /\ opcode = -1
        /\ result = <<"return", "None">>

\* cpu.php()
Php ==
    /\ ~Raised
    /\ cycles < MaxStackCycles
    /\ \E c \in {php(Cur)} : Install(c) /\ result' = Outcome(c.exc, "None")
    /\ call' = <<"php">>
    /\ UNCHANGED <<opcode, steps>>

\* cpu.plp()
Plp ==
    /\ ~Raised
    /\ cycles < MaxStackCycles
    /\ \E c \in {plp(Cur)} : Install(c) /\ result' = Outcome(c.exc, "None")
    /\ call' = <<"plp">>
    /\ UNCHANGED <<opcode, steps>>

SpecStack == InitStack /\ [][Php \/ Plp]_vars

\* C26: PHP pushes P | 0x10 and leaves P unchanged; PLP assigns to P the
\* pulled byte with bit 4 forced to 0; PHP immediately followed by PLP
\* restores P and SP exactly when B is 0 in P beforehand.
C26_PhpThenPlpRestoresStatus ==
    [][ /\ call' = <<"php">> =>
              /\ result' = <<"return", "None">>
              /\ status' = status
              /\ sp' = (sp - 1) % 256
              /\ read(memory', STACK_ROOT + sp).value = SetBit(status, STATUS_B)
        /\ call' = <<"plp">> =>
              /\ result' = <<"return", "None">>
              /\ sp' = (sp + 1) % 256
              /\ status' = ClearBit(read(memory, STACK_ROOT + ((sp + 1) % 256)).value,
                                    STATUS_B)
        /\ (call = <<"php">> /\ call' = <<"plp">> /\ Bit(status, STATUS_B) = 0) =>
              (status' = status /\ sp' = (sp + 1) % 256)
      ]_vars

\* C26 witness: php() with P = 0xC5 and SP = 0x00, then plp(): the stack
\* holds 0xD5 at 0x0100, P is 0xC5 and SP is 0x00 again.
C26_Witness ==
    /\ call = <<"plp">> /\ ~Raised /\ cycles = 7
    /\ status = \hC5 /\ sp = \h00
    /\ read(memory, \h0100).value = \hD5
    /\ log[Len(log)] = [op |-> "read", address |-> \h0100, value |-> \hD5,
                        by |-> "pull_byte_from_stack"]

----------------------------------------------------------------------------
(* The opcode table against the documented instruction set, checked under  *)
(* Spec.                                                                   *)

\* The 151 documented opcodes of the NMOS 6502, by mnemonic.
DocumentedOpcodes ==
    {\h69, \h65, \h75, \h6D, \h7D, \h79, \h61, \h71}             \* ADC
    \cup {\h29, \h25, \h35, \h2D, \h3D, \h39, \h21, \h31}        \* AND
    \cup {\h0A, \h06, \h16, \h0E, \h1E}                          \* ASL
    \cup {\h90, \hB0, \hF0, \h30, \hD0, \h10, \h50, \h70}        \* Bxx
    \cup {\h24, \h2C, \h00}                                      \* BIT, BRK
    \cup {\h18, \hD8, \h58, \hB8, \h38, \hF8, \h78}              \* CLx, SEx
    \cup {\hC9, \hC5, \hD5, \hCD, \hDD, \hD9, \hC1, \hD1}        \* CMP
    \cup {\hE0, \hE4, \hEC, \hC0, \hC4, \hCC}                    \* CPX, CPY
    \cup {\hC6, \hD6, \hCE, \hDE, \hCA, \h88}                    \* DEC, DEX, DEY
    \cup {\h49, \h45, \h55, \h4D, \h5D, \h59, \h41, \h51}        \* EOR
    \cup {\hE6, \hF6, \hEE, \hFE, \hE8, \hC8}                    \* INC, INX, INY
    \cup {\h4C, \h6C, \h20, \h40, \h60, \hEA}                    \* JMP, JSR, RTI, RTS, NOP
    \cup {\hA9, \hA5, \hB5, \hAD, \hBD, \hB9, \hA1, \hB1}        \* LDA
    \cup {\hA2, \hA6, \hB6, \hAE, \hBE, \hA0, \hA4, \hB4, \hAC, \hBC} \* LDX, LDY
    \cup {\h4A, \h46, \h56, \h4E, \h5E}                          \* LSR
    \cup {\h09, \h05, \h15, \h0D, \h1D, \h19, \h01, \h11}        \* ORA
    \cup {\h48, \h08, \h68, \h28}                                \* PHA, PHP, PLA, PLP
    \cup {\h2A, \h26, \h36, \h2E, \h3E, \h6A, \h66, \h76, \h6E, \h7E} \* ROL, ROR
    \cup {\hE9, \hE5, \hF5, \hED, \hFD, \hF9, \hE1, \hF1}        \* SBC
    \cup {\h85, \h95, \h8D, \h9D, \h99, \h81, \h91}              \* STA
    \cup {\h86, \h96, \h8E, \h84, \h94, \h8C}                    \* STX, STY
    \cup {\hAA, \hA8, \hBA, \h8A, \h9A, \h98}                    \* TAX .. TYA

\* C27: every documented NMOS 6502 opcode, RTI at 0x40 included, has a handler
\* in the opcode table: a step() that found no handler and took the BRK path
\* fetched an undocumented opcode byte.
C27_DocumentedOpcodesAreBound ==
    (call[1] = "step" /\ opcode # -1 /\ opcode \notin DOMAIN opcodes)
        => opcode \notin DocumentedOpcodes

----------------------------------------------------------------------------
(* SpecReset: the harness constructs the CPU, loads a program image and    *)
(* calls cpu.reset().                                                      *)

\* The attribute lookup cpu.reset: class CPU6502 defines __init__,
\* build_opcode_table, step, the flag helpers, resolve_address, the stack
\* helpers, _interrupt, irq, nmi and the instruction handlers, and no reset,
\* so the lookup raises AttributeError and nothing is called.
reset(c) == Upd(c, [c EXCEPT !.exc = "AttributeError"])

\* cpu.reset()
Reset ==
    /\ ~Raised
    /\ \E c \in {reset(Cur)} : Install(c) /\ result' = Outcome(c.exc, "None")
    /\ opcode' = -1
    /\ call' = <<"reset">>
    /\ UNCHANGED steps

SpecReset == Init /\ [][Load \/ Reset]_vars

\* C28: reset() sets I, clears D, leaves A, X, Y and the other flags
\* unchanged, decrements SP by 3 modulo 256 without writing to the stack, and
\* sets PC to the little-endian word at 0xFFFC/0xFFFD.
C28_ResetLoadsResetVector ==
    [][ call' = <<"reset">> =>
          /\ result' = <<"return", "None">>
          /\ status' = ClearBit(SetBit(status, STATUS_I), STATUS_D)
          /\ a' = a /\ x' = x /\ y' = y
          /\ sp' = (sp - 3) % 256
          /\ memory' = memory
          /\ pc' = WordAt(memory, RST_VECTOR)
      ]_vars

----------------------------------------------------------------------------
(* SpecLoop: the counted-loop program of test_loop_program, with the loop  *)
(* count n in LDX #n, written at 0x0300 of a zeroed MemoryBlock and        *)
(* stepped until step() returns Break.  The memory is the 1 KiB block of   *)
(* the cpu fixture or a 64 KiB block; the program is written with          *)
(* write_bytes_hex, as the test does, or byte by byte with write.          *)

\* The largest loop count the harness puts in LDX #n.
MaxLoopCount == 6

\* The step count after which the test gives up.
StepLimit == 300

\* The program as the string the test passes to write_bytes_hex, the count
\* in two lower-case hexadecimal digits:
\* "a2 0n" "a9 00" "18" "69 01" "ca" "d0 fa" "8d 00 02" "00"
LoopProgram(n) ==
    LET digits == <<"0", "1", "2", "3", "4", "5", "6", "7", "8", "9",
                    "a", "b", "c", "d", "e", "f">>
    IN  <<"a", "2", " ", digits[(n \div 16) + 1], digits[(n % 16) + 1]>>
            \o <<"a", "9", " ", "0", "0">> \o <<"1", "8">>
            \o <<"6", "9", " ", "0", "1">> \o <<"c", "a">>
            \o <<"d", "0", " ", "f", "a">>
            \o <<"8", "d", " ", "0", "0", " ", "0", "2">> \o <<"0", "0">>

InitLoop == \E size \in {1024, \h10000} : Constructed(MemoryBlock(size))

\* The harness writes the program at 0x0300 and sets cpu.pc.
LoadLoop ==
    /\ call = <<"CPU6502">>
    /\ \E n \in 1..MaxLoopCount :
          \/ \E w \in {MemoryBlock_write_bytes_hex(memory, \h0300, LoopProgram(n))} :
                /\ memory' = w.memory
                /\ result' = Outcome(w.raised, "None")
          \/ /\ memory' = write_all(memory, At(\h0300, fromhex(LoopProgram(n)).bytes))
             /\ result' = <<"return", "None">>
    /\ pc' = \h0300
    /\ call' = <<"load", \h0300>>
    /\ UNCHANGED <<a, x, y, sp, status, cycles, opcode, log, steps>>

\* One iteration of the loop of the test: result = cpu.step(); steps += 1;
\* leave on Break; fail when steps > 300.
StepLoop ==
    /\ call[1] \in {"load", "step"}
    /\ ~Raised
    /\ result # <<"return", "BRK">>
    /\ \E s \in {step(Cur)} :
          /\ Install(s.c)
          /\ opcode' = s.opcode
          /\ result' = IF s.c.exc = "none" /\ s.result # "BRK" /\ steps + 1 > StepLimit
                       THEN <<"raise", "Failed">>
                       ELSE Outcome(s.c.exc, s.result)
          /\ steps' = IF s.c.exc = "none" THEN steps + 1 ELSE steps
    /\ call' = <<"step">>

SpecLoop == InitLoop /\ [][LoadLoop \/ StepLoop]_vars

\* C29: with the program A2 05 A9 00 18 69 01 CA D0 FA 8D 00 02 00 at 0x0300
\* of zeroed RAM and PC = 0x0300, stepping reaches a first Break result, and
\* then memory[0x0200] = 0x05 and cycles = 59, the loop body having run 5
\* times (24 steps, A = 5, X = 0); no step before it raises and none is left
\* to take after 24.
C29_LoopProgramRunsToBreak ==
    (call[1] = "step" /\ read(memory, \h0301).value = \h05) =>
        /\ ~Raised
        /\ steps <= 24
        /\ steps = 24 => result = <<"return", "BRK">>
        /\ result = <<"return", "BRK">> =>
              /\ read(memory, \h0200).value = \h05
              /\ cycles = 59
              /\ steps = 24 /\ a = 5 /\ x = 0

----------------------------------------------------------------------------
(* SpecBytes: write_bytes called on small zeroed MemoryBlocks, with start  *)
(* addresses from below 0 to above the size and sequences from empty to    *)
(* longer than the block.                                                  *)

InitBytes == \E size \in 1..MaxSize : Constructed(MemoryBlock(size))

\* memory.write_bytes(start_address, sequence)
WriteBytes ==
    /\ \E start_address \in (-1)..(MaxSize + 1),
          sequence \in UNION {[1..n -> {\h01, \hAB}] : n \in 0..(MaxSize + 1)} :
          /\ \E w \in {MemoryBlock_write_bytes(memory, start_address, sequence)} :
                /\ memory' = w.memory
                /\ result' = Outcome(w.raised, "None")
          /\ call' = <<"write_bytes", start_address, sequence>>
    /\ UNCHANGED <<a, x, y, pc, sp, status, cycles, opcode, log, steps>>

SpecBytes == InitBytes /\ [][WriteBytes]_vars

\* C30: write_bytes(start, seq) succeeds and stores seq at
\* [start, start + len(seq)), every other byte and the size unchanged, exactly
\* when that range lies within the memory, a range that ends at the last
\* byte included; otherwise it raises IndexError and changes no byte.  (An
\* empty sequence at a start that is no address of the memory has an empty
\* range: either outcome is accepted for it, and no byte may change.)
C30_WriteBytesWithinBounds ==
    [][ call'[1] = "write_bytes" =>
          LET start == call'[2]
              seq == call'[3]
          IN  IF seq = << >> /\ ~(0 <= start /\ start < memory.size)
              THEN memory' = memory
              ELSE IF 0 <= start /\ start + Len(seq) <= memory.size
              THEN /\ result' = <<"return", "None">>
                   /\ memory'.size = memory.size
                   /\ \A k \in 0..(memory.size - 1) :
                         Get(memory'.mem, k) =
                             IF start <= k /\ k < start + Len(seq)
                             THEN seq[k - start + 1]
                             ELSE Get(memory.mem, k)
              ELSE /\ result' = <<"raise", "IndexError">>
                   /\ memory' = memory
      ]_vars

----------------------------------------------------------------------------
(* SpecBlock: read, write, write_bytes and write_bytes_hex called in any   *)
(* order on the small zeroed MemoryBlocks of SpecBytes.  The strings given *)
(* to write_bytes_hex encode no, one or two bytes, or are no hexadecimal   *)
(* string at all.                                                          *)

\* memory.write_bytes_hex(start_address, sequence)
WriteBytesHex ==
    /\ \E start_address \in MapAddresses,
          sequence \in {<< >>, <<"0", "1">>, <<"A", "b">>, <<"a", "b", "c", "d">>,
                        <<"0">>, <<"z", "z">>} :
          /\ \E w \in {MemoryBlock_write_bytes_hex(memory, start_address, sequence)} :
                /\ memory' = w.memory
                /\ result' = Outcome(w.raised, "None")
          /\ call' = <<"write_bytes_hex", start_address, sequence>>
    /\ UNCHANGED <<a, x, y, pc, sp, status, cycles, opcode, log, steps>>

SpecBlock == InitBytes /\ [][Read \/ Write \/ WriteBytes \/ WriteBytesHex]_vars

\* C31: no read, write, write_bytes or write_bytes_hex call changes the
\* length of a MemoryBlock, and a write_bytes_hex(start, s) that returns,
\* with s encoding n bytes, leaves the i-th encoded byte at start + i for
\* i < n and every byte outside [start, start + n) at its address with its
\* value.
C31_BlockKeepsItsSize ==
    [][ /\ memory'.size = memory.size
        /\ (call'[1] = "write_bytes_hex" /\ result'[1] = "return") =>
              LET start == call'[2]
                  encoded == fromhex(call'[3]).bytes
              IN  \A k \in 0..(memory.size - 1) :
                      Get(memory'.mem, k) =
                          IF start <= k /\ k < start + Len(encoded)
                          THEN encoded[k - start + 1]
                          ELSE Get(memory.mem, k)
      ]_vars

----------------------------------------------------------------------------
(* SpecRot: cpu.rol(mode) and cpu.ror(mode) called as the unit tests call  *)
(* them, with mode None for the accumulator, on a CPU whose PC is at the   *)
(* operand bytes 0x10 0x03 and whose X is 0x20.  The input byte v is in A  *)
(* and at the address of every memory mode (0x0010, 0x0030, 0x0310,        *)
(* 0x0330); the harness keeps the incoming carry in Y, which no rotate     *)
(* touches.  A second call follows an accumulator call only.               *)

\* The cycles after which the harness makes no further call.
MaxRotCycles == 3

InitRot ==
    \E v \in Bytes, c_in \in {0, 1} :
        /\ memory = write_all(MemoryBlock(\h10000),
                              At(\h0201, <<\h10, \h03>>)
                                  \cup {<<\h0010, v>>, <<\h0030, v>>,
                                        <<\h0310, v>>, <<\h0330, v>>})
        /\ a = v /\ x = \h20 /\ y = c_in /\ pc = \h0201 /\ sp = \hFF
        /\ status = PutBit(CPU6502(memory).status, STATUS_C, c_in)
        /\ cycles = 0 /\ log = << >> /\ steps = 0
        /\ call = <<"load", \h0200>> /\ opcode = -1
        /\ result = <<"return", "None">>

\* cpu.rol(mode), mode one of those the @opcode decorators of rol name
Rol ==
    /\ ~Raised
    /\ cycles < MaxRotCycles
    /\ \E mode \in {IF Len(b) < 3 THEN "None" ELSE b[3] : b \in Bindings({"rol"})} :
          /\ \E c \in {rol(Cur, mode)} : Install(c) /\ result' = Outcome(c.exc, "None")
          /\ call' = <<"rol", mode>>
    /\ UNCHANGED <<opcode, steps>>

\* cpu.ror(mode), mode one of those the @opcode decorators of ror name
Ror ==
    /\ ~Raised
    /\ cycles < MaxRotCycles
    /\ \E mode \in {IF Len(b) < 3 THEN "None" ELSE b[3] : b \in Bindings({"ror"})} :
          /\ \E c \in {ror(Cur, mode)} : Install(c) /\ result' = Outcome(c.exc, "None")
          /\ call' = <<"ror", mode>>
    /\ UNCHANGED <<opcode, steps>>

SpecRot == InitRot /\ [][Rol \/ Ror]_vars

\* C32: for every input byte v and incoming carry c, on the accumulator and
\* in every memory mode, ROL stores ((v << 1) | c) & 0xFF and sets C to bit 7
\* of v, ROR stores (c << 7) | (v >> 1) and sets C to bit 0 of v; the stored
\* result is a byte and Z and N follow it; and ROL followed by ROR on the
\* accumulator restores A and C.
C32_RotateThroughCarry ==
    [][ (call'[1] \in {"rol", "ror"} /\ (call'[2] = "None" \/ cycles = 0)) =>
          LET mode == call'[2]
              address == CASE mode = "ZERO_PAGE" -> \h0010
                           [] mode = "ZERO_PAGE_X" -> \h0030
                           [] mode = "ABSOLUTE" -> \h0310
                           [] OTHER -> \h0330
              v == IF mode = "None" THEN a ELSE read(memory, address).value
              c == Bit(status, STATUS_C)
              stored == IF mode = "None" THEN a' ELSE read(memory', address).value
          IN  /\ result' = <<"return", "None">>
              /\ stored \in 0..255
              /\ call'[1] = "rol" =>
                    /\ stored = (2 * v + c) % 256
                    /\ Bit(status', STATUS_C) = Bit(v, 7)
              /\ call'[1] = "ror" =>
                    /\ stored = 128 * c + (v \div 2)
                    /\ Bit(status', STATUS_C) = v % 2
              /\ Bit(status', STATUS_Z) = 1 <=> stored = 0
              /\ Bit(status', STATUS_N) = Bit(stored, 7)
              /\ (call = <<"rol", "None">> /\ cycles = 2 /\ call' = <<"ror", "None">>) =>
                    /\ a' = read(memory, \h0010).value
                    /\ Bit(status', STATUS_C) = y
      ]_vars

\* C32 witness: ROL A then ROR A from A = 0xC0 with C = 1 have left A = 0xC0
\* and C = 1 again (ROR A twice would have left 0x70).
C32_Witness ==
    /\ call = <<"ror", "None">> /\ cycles = 4 /\ ~Raised
    /\ read(memory, \h0010).value = \hC0 /\ y = 1
    /\ a = \hC0 /\ Bit(status, STATUS_C) = 1

----------------------------------------------------------------------------
(* SpecBin: ADC, SBC, AND, EOR, ORA, CMP, CPX and CPY executed once in     *)
(* each of their addressing modes, with operand bytes, pointers and index  *)
(* registers that reach the operand within a page, across a page boundary  *)
(* and across 0xFFFF.                                                      *)

\* lo, hi and base are as in InitLoad; the mode is the last keyword argument
\* of the binding.
InitBin ==
    \E b \in Bindings({"adc", "sbc", "and_op", "eor", "ora", "compare"}),
       index_x \in {\h00, \h01, \h10, \hFF}, index_y \in {\h00, \h01, \h10, \hFF},
       lo \in {\h00, \hF0, \hFF} :
    \E hi \in IF b[Len(b)] \in {"ABSOLUTE", "ABSOLUTE_X", "ABSOLUTE_Y"}
              THEN {\h03, \hFF} ELSE {0},
       base \in IF b[Len(b)] \in {"INDIRECT_X", "INDIRECT_Y"}
                THEN {\h0300, \h03F0, \hFFF0} ELSE {0} :
        LET addr_zp == IF b[Len(b)] = "INDIRECT_X" THEN (lo + index_x) % 256 ELSE lo
        IN  /\ memory = write_all(MemoryBlock(\h10000),
                             At(\h0200, <<b[1], lo, hi>>)
                               \cup IF b[Len(b)] \in {"INDIRECT_X", "INDIRECT_Y"}
                                    THEN {<<addr_zp, base % 256>>,
                                          <<(addr_zp + 1) % 256, base \div 256>>}
                                    ELSE {})
            /\ a = \h55 /\ x = index_x /\ y = index_y /\ pc = \h0200 /\ sp = \hFF
            /\ status = CPU6502(memory).status
            /\ cycles = 0 /\ log = << >> /\ steps = 0
            /\ call = <<"load", \h0200>> /\ opcode = -1
            /\ result = <<"return", "None">>

SpecBin == InitBin /\ [][StepOnce]_vars

\* C34: in Absolute,X and Absolute,Y, ADC, SBC, AND, EOR, ORA and CMP cost 4
\* cycles, and 5 when base and effective address are in different pages; in
\* (Indirect),Y they cost 5 cycles, and on a page crossing ADC, SBC, AND and
\* CMP cost 6 while EOR and ORA still cost 5.
C34_BinaryPageCrossingCycles ==
    [][ (call'[1] = "step"
            /\ opcode' \in {b[1] : b \in Bindings({"adc", "sbc", "and_op", "eor",
                                                   "ora", "compare"})}
            /\ opcodes[opcode'][Len(opcodes[opcode'])]
                   \in {"ABSOLUTE_X", "ABSOLUTE_Y", "INDIRECT_Y"}) =>
          LET method == opcodes[opcode'][2]
              mode == opcodes[opcode'][Len(opcodes[opcode'])]
              index == IF mode = "ABSOLUTE_X" THEN x ELSE y
              effective == (LoadBase(mode) + index) % 65536
              crossed == LoadBase(mode) \div 256 # effective \div 256
          IN  /\ result' = <<"return", "NORMAL">>
              /\ cycles' = cycles
                    + (IF mode = "INDIRECT_Y" THEN 5 ELSE 4)
                    + (IF crossed /\ (mode # "INDIRECT_Y" \/ method \notin {"eor", "ora"})
                       THEN 1 ELSE 0)
      ]_vars

\* C34 witness: EOR ($F0),Y, its pointer holding 0x03F0, with Y = 0x10 has
\* read 0x0400 in the next page and taken 5 cycles.
C34_Witness ==
    /\ call = <<"step">> /\ opcode = \h51 /\ ~Raised
    /\ read(memory, \h0201).value = \hF0
    /\ read(memory, \h00F0).value = \hF0 /\ read(memory, \h00F1).value = \h03
    /\ y = \h10 /\ cycles = 5
    /\ log[Len(log)].address = \h0400

----------------------------------------------------------------------------
(* SpecPush: a harness that, from a starting SP s0, sets A and calls       *)
(* cpu.pha() n times and then calls cpu.pla() n times.  `call` is          *)
(* <<method, i, n, s0>> after the i-th call of that method.  n is 1, 2,    *)
(* 255, 256 or MaxPushes, which is more than the stack page holds.         *)

\* The largest number of pushes the harness makes.
MaxPushes == 257

\* The byte the harness puts in A for its i-th push: the first 256 pushes
\* differ from each other, and a later push differs from the push whose
\* slot it overwrites.
PushedByte(i) == (i + 128 * ((i - 1) \div 256)) % 256

InitPush ==
    \E s0 \in {\hFF, \h80, \h01, \h00}, n \in {1, 2, 255, 256, MaxPushes} :
        /\ memory = MemoryBlock(\h10000)
        /\ a = 0 /\ x = 0 /\ y = 0 /\ pc = \h0200 /\ sp = s0
        /\ status = CPU6502(memory).status
        /\ cycles = 0 /\ log = << >> /\ steps = 0
        /\ call = <<"load", 0, n, s0>> /\ opcode = -1
        /\ result = <<"return", "None">>

\* cpu.a = PushedByte(i); cpu.pha()
Pha ==
    /\ ~Raised
    /\ call[1] \in {"load", "pha"} /\ call[2] < call[3]
    /\ \E c \in {pha(Set(Cur, "a", PushedByte(call[2] + 1)))} :
          Install(c) /\ result' = Outcome(c.exc, "None")
    /\ call' = <<"pha", call[2] + 1, call[3], call[4]>>
    /\ UNCHANGED <<opcode, steps>>

\* cpu.pla()
Pla ==
    /\ ~Raised
    /\ \/ call[1] = "pha" /\ call[2] = call[3]
       \/ call[1] = "pla" /\ call[2] < call[3]
    /\ \E c \in {pla(Cur)} : Install(c) /\ result' = Outcome(c.exc, "None")
    /\ call' = <<"pla", IF call[1] = "pha" THEN 1 ELSE call[2] + 1, call[3], call[4]>>
    /\ UNCHANGED <<opcode, steps>>

SpecPush == InitPush /\ [][Pha \/ Pla]_vars

\* C35: every push leaves SP one lower modulo 256; after n pushes the j-th
\* pull leaves SP at (s0 - n + j) mod 256, so the n-th pull restores s0; for
\* n <= 256 the j-th pull returns the byte of push n + 1 - j; for n > 256 a
\* pull returns the byte of the last push that wrote its slot, the bytes of
\* the oldest pushes being overwritten.
C35_StackIsLifo ==
    [][ /\ call'[1] = "pha" =>
              /\ result' = <<"return", "None">>
              /\ sp' = (sp - 1) % 256
        /\ call'[1] = "pla" =>
              LET j == call'[2]
                  n == call'[3]
                  s0 == call'[4]
                  pushed == n + 1 - j
                  latest == pushed + 256 * ((n - pushed) \div 256)
              IN  /\ result' = <<"return", "None">>
                  /\ sp' = (s0 - n + j) % 256
                  /\ j = n => sp' = s0
                  /\ n <= 256 => a' = PushedByte(pushed)
                  /\ n > 256 => a' = PushedByte(latest)
                  /\ (n > 256 /\ latest # pushed) => a' # PushedByte(pushed)
      ]_vars

\* C35 witness: from SP = 0x01, 256 pushes and 256 pulls have taken SP
\* through 0x00 and 0xFF back to 0x01, and the last pull has returned the
\* byte of the first push.
C35_Witness ==
    /\ call = <<"pla", 256, 256, \h01>> /\ ~Raised
    /\ sp = \h01 /\ a = PushedByte(1)
    /\ read(memory, STACK_ROOT + \hFF).value = PushedByte(3)

----------------------------------------------------------------------------
(* Properties of the status flags, checked under Spec.                     *)

\* C36: under Spec, the B bit of P is 0 in the constructed CPU and after
\* every step(), irq() and nmi() call that returns: a step that ran the BRK
\* path has cleared it, a PLP that pulled a byte with bit 4 set has not kept
\* it, and the status byte irq() and nmi() push has bit 4 clear.
C36_BreakFlagClearBetweenCalls ==
    /\ ~Raised => Bit(status, STATUS_B) = 0
    /\ (call[1] \in {"irq", "nmi"} /\ ~Raised /\ Len(log) > 0) =>
          /\ log[3].op = "write" /\ Bit(log[3].value, STATUS_B) = 0

\* C36 witness: a PLP step has pulled a byte with bit 4 set.
C36_Witness ==
    /\ call = <<"step">> /\ opcode = \h28 /\ ~Raised
    /\ Len(log) = 2 /\ log[2].op = "read" /\ Bit(log[2].value, STATUS_B) = 1
    /\ Bit(status, STATUS_B) = 0

----------------------------------------------------------------------------
\* C39: under Spec, a taken irq(), an nmi() and a step that returns Break
\* leave I = 1; irq() called while I = 1 changes nothing; and the only calls
\* that find I = 1 and leave I = 0 are a step executing CLI and a step
\* executing PLP that pulled a byte with bit 2 clear.
C39_InterruptsDoNotNest ==
    [][ /\ (call'[1] \in {"irq", "nmi"} /\ log' # << >> /\ result'[1] = "return") =>
              Bit(status', STATUS_I) = 1
        /\ (call'[1] = "step" /\ result' = <<"return", "BRK">>) =>
              Bit(status', STATUS_I) = 1
        /\ (call'[1] = "irq" /\ Bit(status, STATUS_I) = 1) =>
              /\ log' = << >>
              /\ <<pc', sp', a', x', y', status', cycles', memory'>> =
                    <<pc, sp, a, x, y, status, cycles, memory>>
        /\ (Bit(status, STATUS_I) = 1 /\ Bit(status', STATUS_I) = 0) =>
              /\ call'[1] = "step"
              /\ \/ opcode' = \h58
                 \/ /\ opcode' = \h28
                    /\ log'[Len(log')].op = "read"
                    /\ Bit(log'[Len(log')].value, STATUS_I) = 0
      ]_vars

\* C39 witness: after CLI at 0x0200 and a taken irq(), a second irq() has
\* returned without an access, PC still at the IRQ handler 0x1234.
C39_Witness ==
    /\ call = <<"irq">> /\ log = << >> /\ ~Raised
    /\ read(memory, \h0200).value = \h58
    /\ Bit(status, STATUS_I) = 1
    /\ cycles = 9 /\ sp = \hFC /\ pc = \h1234

----------------------------------------------------------------------------
(* SpecEvery: one call of step(), irq() or nmi() on a CPU over 64 KiB of   *)
(* RAM that holds every opcode byte in turn, followed by the operand bytes *)
(* lo and hi, at 0x0200 and at the last two addresses.  A is a BCD or a    *)
(* non-BCD byte, P is the constructed status or has D and C set and I      *)
(* clear, X and Y hold the same small or large index, SP is at the top or  *)
(* the bottom of the stack page.                                           *)

InitEvery ==
    \E op \in 0..255, p \in {\h0200, \hFFFE, \hFFFF},
       lo \in {\h00, \hFF}, hi \in {\h03, \hFF},
       a_initial \in {\h05, \h9A}, index \in {\h01, \hFF}, s \in {\hFF, \h00},
       flags \in {{}, {STATUS_D, STATUS_C}} :
        /\ memory = write_all(MemoryBlock(\h10000),
                              {d \in At(p, <<op, lo, hi>>) : d[1] <= \hFFFF})
        /\ a = a_initial /\ x = index /\ y = index /\ pc = p /\ sp = s
        /\ status = IF flags = {} THEN CPU6502(memory).status
                    ELSE ClearBit(SetBit(SetBit(CPU6502(memory).status, STATUS_D),
                                         STATUS_C),
                                  STATUS_I)
        /\ cycles = 0 /\ log = << >> /\ steps = 0
        /\ call = <<"load", p>> /\ opcode = -1
        /\ result = <<"return", "None">>

\* cpu.irq() or cpu.nmi(), called once on the prepared CPU
InterruptOnce == call[1] = "load" /\ (Irq \/ Nmi)

SpecEvery == InitEvery /\ [][StepOnce \/ InterruptOnce]_vars

\* The address an instruction in `mode` at PC works on.
EffectiveAddress(mode) ==
    LET z == read(memory, pc + 1).value
        word(lo, hi) == read(memory, lo).value + 256 * read(memory, hi).value
    IN  CASE mode = "ZERO_PAGE" -> z
          [] mode = "ZERO_PAGE_X" -> (z + x) % 256
          [] mode = "ZERO_PAGE_Y" -> (z + y) % 256
          [] mode = "ABSOLUTE" -> word(pc + 1, pc + 2)
          [] mode = "ABSOLUTE_X" -> (word(pc + 1, pc + 2) + x) % 65536
          [] mode = "ABSOLUTE_Y" -> (word(pc + 1, pc + 2) + y) % 65536
          [] mode = "INDIRECT_X" -> word((z + x) % 256, (z + x + 1) % 256)
          [] mode = "INDIRECT_Y" -> (word(z, (z + 1) % 256) + y) % 65536

\* The n stack slots from SP downwards.
StackSlots(n) == {STACK_ROOT + ((sp - k) % 256) : k \in 0..(n - 1)}

\* C37: the addresses a call writes on the bus are: for STA, STX, STY and
\* memory-mode INC, DEC, ASL, LSR, ROL, ROR the effective address; for PHA
\* and PHP the stack slot at SP; for JSR the two and for BRK (and a byte
\* without a binding), a taken irq() and nmi() the three slots from SP
\* downwards; for every other instruction none, and then memory is
\* unchanged.  A call that raises has written no other address, and no byte
\* at an address that was not written changes.
C37_OnlyStoresAndPushesWrite ==
    [][ call'[1] \in {"step", "irq", "nmi"} =>
          LET writes == {log'[i].address : i \in {k \in 1..Len(log') : log'[k].op = "write"}}
              b == IF opcode' \in DOMAIN opcodes THEN opcodes[opcode']
                   ELSE <<opcode', "brk">>
              allowed ==
                  CASE call'[1] = "irq" ->
                        IF Bit(status, STATUS_I) = 1 THEN {} ELSE StackSlots(3)
                    [] call'[1] = "nmi" -> StackSlots(3)
                    [] opcode' = -1 -> {}
                    [] b[2] \in {"sta", "stx", "sty", "inc", "dec"} ->
                        {EffectiveAddress(b[3])}
                    [] b[2] \in {"asl", "lsr", "rol", "ror"} /\ Len(b) = 3 ->
                        {EffectiveAddress(b[3])}
                    [] b[2] \in {"pha", "php"} -> StackSlots(1)
                    [] b[2] = "jsr" -> StackSlots(2)
                    [] b[2] = "brk" -> StackSlots(3)
                    [] OTHER -> {}
          IN  /\ writes \subseteq allowed
              /\ result'[1] = "return" => writes = allowed
              /\ allowed = {} => memory' = memory
              /\ memory'.size = memory.size
              /\ \A k \in (DOMAIN memory.mem \cup DOMAIN memory'.mem) \ writes :
                    Get(memory'.mem, k) = Get(memory.mem, k)
      ]_vars

\* C37 witness: STA ($FF),Y at 0x0200 with Y = 0xFF, its pointer at 0x00FF
\* and 0x0000 holding 0x0000, has written A to 0x00FF and nothing else.
C37_Witness ==
    /\ call = <<"step">> /\ opcode = \h91 /\ ~Raised
    /\ pc = \h0202 /\ y = \hFF /\ a = \h9A
    /\ read(memory, \h0201).value = \hFF
    /\ log[Len(log)].op = "write" /\ log[Len(log)].address = \h00FF
    /\ read(memory, \h00FF).value = \h9A

\* C38: under SpecEvery, step() returns Normal or Break and raises no error,
\* for every opcode byte, in decimal mode with a non-BCD A or operand, and
\* with the operand bytes at or past 0xFFFF.
C38_StepNeverRaises ==
    call = <<"step">> => result \in {<<"return", "NORMAL">>, <<"return", "BRK">>}

=============================================================================
